---- MODULE Spec2Model ----
(***************************************************************************)
(* Command DSP protocol of the MOTU FireWire audio interfaces              *)
(* (libs/motu/protocols/src/command_dsp.rs): the command codec             *)
(* (DspCmd::parse / DspCmd::build), the reception reassembler              *)
(* (CommandDspMessageHandler), the transmission framer (send_message) and  *)
(* the per-domain state writers (write_*_state).                           *)
(*                                                                         *)
(* Representation.                                                         *)
(*  - A byte is an integer in 0..255, a byte buffer a sequence of bytes.   *)
(*  - An f32 is its IEEE-754 binary32 fields <<sign, exponent, mantissa>>  *)
(*    (1, 8 and 23 bits); from_le_bytes / to_le_bytes convert between the  *)
(*    fields and the four little-endian bytes.                             *)
(*  - A typed value is a tuple headed by the name of its Rust type:        *)
(*    <<"bool", 0|1>>, <<"usize", n>>, <<"i32", n>>, <<"u32", n>>,         *)
(*    <<"f32", s, e, m>>, <<E, 0, k>> for the k-th named variant of the    *)
(*    enumeration E and <<E, 1, v>> for E::Reserved(v),                    *)
(*    <<"focus", 0, 0, ch>> for FocusTarget::Output(ch),                   *)
(*    <<"focus", 1, 0, ch>> for FocusTarget::Input(ch) and                 *)
(*    <<"focus", 2, dir, ch>> for FocusTarget::Reserved(dir, ch),          *)
(*    <<"bytes", b1, ..>> for a Vec<u8>.                                   *)
(*  - A DspCmd is a record [dom, name, ch, src, id, val]: the domain       *)
(*    (variant of DspCmd), the variant inside the domain, the channel, the *)
(*    mixer source channel, the raw identifier of a Reserved variant and   *)
(*    the typed value.                                                     *)
(*  - A panic (failed assertion, slice or index out of range, arithmetic   *)
(*    overflow under overflow checks) is a result with panic = TRUE.       *)
(***************************************************************************)
EXTENDS Integers, Sequences, FiniteSets, TLC

VARIABLES
    overflow_checks,  \* build profile: arithmetic overflow panics (TRUE) or wraps (FALSE)
    pc,               \* position of the harness that drives the operation under study
    \* CommandDspMessageHandler
    state,            \* ParserState
    cache,            \* accumulation buffer
    seq_num,          \* expected sequence number
    panicked,         \* name of the operation that panicked, "" when none did
    decoded,          \* return value of the last decode_messages() call
    \* the peer that delivers the notifications
    sender_seq,       \* sequence number of the next frame the device transmits
    nframes,          \* number of frames fed to the handler so far
    nlost,            \* number of frames the handler missed so far
    renumbered,       \* some frame did not continue the sender's numbering
    log,              \* the latest two frames fed to the handler, newest last
    \* codec harness
    in_cmd,           \* command handed to DspCmd::build
    in_raw,           \* bytes handed to DspCmd::parse or remove_padding
    in_recs,          \* the records in_raw was composed of
    out_raw,          \* bytes produced
    out_cmds,         \* commands produced
    out_len,          \* length returned by DspCmd::parse
    \* transmission
    writer,           \* the state writer that is called
    called_with,      \* old state and sequence number when the writer was called
    sequence_number,  \* the caller's outbound sequence counter
    old,              \* the caller's state block (the `old` argument of write_*_state)
    new,              \* the state block handed to the writer
    wire,             \* frames written to the bus by the call, in order
    fail_at,          \* the bus transaction that fails (0: none)
    result            \* "ok" or "err": the Result of the last call

vars == <<overflow_checks, pc, state, cache, seq_num, panicked, decoded,
          sender_seq, nframes, nlost, renumbered, log, in_cmd, in_raw, in_recs, out_raw, out_cmds, out_len,
          writer, called_with, sequence_number, old, new, wire, fail_at, result>>

handlerVars == <<state, cache, seq_num, panicked, decoded, sender_seq, nframes, nlost, renumbered, log>>
codecVars == <<in_cmd, in_raw, in_recs, out_raw, out_cmds, out_len>>
writerVars == <<writer, called_with, sequence_number, old, new, wire, fail_at, result>>

---------------------------------------------------------------------------
(* Constants of the protocol.                                              *)

MAXIMUM_DSP_FRAME_SIZE == 248

CMD_RESOURCE == 35           \* 0x23
CMD_BYTE_MULTIPLE == 73      \* 0x49
CMD_QUADLET_MULTIPLE == 70   \* 0x46
CMD_DRAIN == 98              \* 0x62
CMD_END == 101               \* 0x65
CMD_BYTE_SINGLE == 105       \* 0x69
CMD_QUADLET_SINGLE == 102    \* 0x66

CMD_RESOURCE_LENGTH == 6
CMD_BYTE_SINGLE_LENGTH == 6
CMD_QUADLET_SINGLE_LENGTH == 9

MIXER_COUNT == 8

U8_MAX == 255
I32_MAX == 2147483647
I32_MIN == (-2147483647) - 1

---------------------------------------------------------------------------
(* Helpers on sequences.                                                   *)

Min(S) == CHOOSE x \in S : \A y \in S : x <= y

\* s[from..to) in Rust notation, 0-based bounds; the caller checks the range.
Slice(s, from, to) == SubSeq(s, from + 1, to)

\* s[from..]
Drop(s, from) == SubSeq(s, from + 1, Len(s))

Repeat(s, n) == [i \in 1..(n * Len(s)) |-> s[((i - 1) % Len(s)) + 1]]

\* The concatenation of the sequences of ss, by halves
RECURSIVE Flatten(_)
Flatten(ss) ==
    IF Len(ss) = 0 THEN <<>>
    ELSE IF Len(ss) = 1 THEN ss[1]
    ELSE Flatten(SubSeq(ss, 1, Len(ss) \div 2))
            \o Flatten(SubSeq(ss, Len(ss) \div 2 + 1, Len(ss)))

Pow2(n) == 2 ^ n

---------------------------------------------------------------------------
(* Primitive codecs.                                                       *)

\* f32::from_le_bytes: the sign, exponent and mantissa fields of the quadlet.
f32_from_le_bytes(q) ==
    << "f32",
       q[4] \div 128,
       (q[4] % 128) * 2 + (q[3] \div 128),
       (q[3] % 128) * 65536 + q[2] * 256 + q[1] >>

\* f32::to_le_bytes
f32_to_le_bytes(f) ==
    << f[4] % 256,
       (f[4] \div 256) % 256,
       (f[3] % 2) * 128 + (f[4] \div 65536),
       f[2] * 128 + (f[3] \div 2) >>

f32_is_nan(f) == f[3] = 255 /\ f[4] # 0
f32_is_zero(f) == f[3] = 0 /\ f[4] = 0

\* PartialEq for f32: NaN differs from everything, the two zeros are equal.
f32_eq(a, b) ==
    /\ ~f32_is_nan(a)
    /\ ~f32_is_nan(b)
    /\ (a = b \/ (f32_is_zero(a) /\ f32_is_zero(b)))

\* `f as i32`: truncation toward zero, saturating at the bounds, NaN to 0.
f32_as_i32(f) ==
    LET s == f[2]
        e == f[3]
        m == f[4]
        sig == 8388608 + m
        mag == IF e >= 150 THEN sig * Pow2(e - 150) ELSE sig \div Pow2(150 - e)
    IN  IF f32_is_nan(f) THEN 0
        ELSE IF e < 127 THEN 0
        ELSE IF e >= 158 THEN (IF s = 1 THEN I32_MIN ELSE I32_MAX)
        ELSE IF s = 1 THEN 0 - mag ELSE mag

\* `f as u32`: truncation toward zero, negative values and NaN to 0.  The
\* values from 2^31 up exceed the integers of TLC; they are capped at
\* I32_MAX and the inputs of the model stay below 2^31.
f32_as_u32(f) ==
    LET v == f32_as_i32(f) IN IF v < 0 THEN 0 ELSE v

\* floor(log2(a)) for 0 < a < 2^31
Log2(a) == CHOOSE e \in 0..30 : a \div Pow2(e) = 1

\* `a as f32` for 0 <= a < 2^31: round to nearest, ties to even.
mag_as_f32(s, a) ==
    IF a = 0 THEN <<"f32", s, 0, 0>>
    ELSE LET e == Log2(a) IN
         IF e <= 23
         THEN <<"f32", s, 127 + e, a * Pow2(23 - e) - 8388608>>
         ELSE LET sh == e - 23
                  q == a \div Pow2(sh)
                  r == a % Pow2(sh)
                  half == Pow2(sh - 1)
                  up == r > half \/ (r = half /\ q % 2 = 1)
                  q2 == IF up THEN q + 1 ELSE q
              IN  IF q2 = 16777216
                  THEN <<"f32", s, 127 + e + 1, 0>>
                  ELSE <<"f32", s, 127 + e, q2 - 8388608>>

\* `val as f32` for an i32
i32_as_f32(v) ==
    IF v = I32_MIN THEN <<"f32", 1, 158, 0>>
    ELSE IF v < 0 THEN mag_as_f32(1, 0 - v) ELSE mag_as_f32(0, v)

\* `val as f32` for a u32 (below 2^31)
u32_as_f32(v) == mag_as_f32(0, v)

\* Each decoder returns [panic, val].
to_bool(raw) ==
    IF Len(raw) # 1 THEN [panic |-> TRUE, val |-> <<"bool", 0>>]
    ELSE [panic |-> FALSE, val |-> <<"bool", IF raw[1] > 0 THEN 1 ELSE 0>>]

to_usize(raw) ==
    IF Len(raw) # 1 THEN [panic |-> TRUE, val |-> <<"usize", 0>>]
    ELSE [panic |-> FALSE, val |-> <<"usize", raw[1]>>]

to_f32(raw) ==
    IF Len(raw) # 4 THEN [panic |-> TRUE, val |-> <<"f32", 0, 0, 0>>]
    ELSE [panic |-> FALSE, val |-> f32_from_le_bytes(raw)]

to_i32(raw) ==
    LET f == to_f32(raw) IN
    [panic |-> f.panic, val |-> <<"i32", f32_as_i32(f.val)>>]

to_u32(raw) ==
    LET f == to_f32(raw) IN
    [panic |-> f.panic, val |-> <<"u32", f32_as_u32(f.val)>>]

\* The number of named variants of each enumeration with a Reserved(u8)
\* fallback (the From<u8> implementations).
EnumCount ==
    [ InputStereoPairMode |-> 2, RollOffLevel |-> 6, FilterType5 |-> 5,
      FilterType4 |-> 4, LevelDetectMode |-> 2, LevelerMode |-> 2,
      SourceStereoPairMode |-> 2, RoomShape |-> 5, SplitPoint |-> 2 ]

EnumNames == DOMAIN EnumCount

\* impl From<u8> for E
enum_from_u8(E, v) == IF v < EnumCount[E] THEN <<E, 0, v>> ELSE <<E, 1, v>>

\* impl From<E> for u8
u8_from_enum(val) == val[3]

\* impl From<&[u8]> for FocusTarget: raw[3] and raw[0] are read.
FocusTarget_from(raw) ==
    IF Len(raw) < 4 THEN [panic |-> TRUE, val |-> <<"focus", 0, 0, 0>>]
    ELSE [panic |-> FALSE,
          val |-> IF raw[4] = 1 THEN <<"focus", 1, 0, raw[1]>>
                  ELSE IF raw[4] = 3 THEN <<"focus", 0, 0, raw[1]>>
                  ELSE <<"focus", 2, raw[4], raw[1]>>]

\* impl From<&FocusTarget> for Vec<u8>
Vec_from_FocusTarget(val) ==
    IF val[2] = 1 THEN <<val[4] % 256, 0, 0, 1>>
    ELSE IF val[2] = 0 THEN <<val[4] % 256, 0, 0, 3>>
    ELSE <<val[4] % 256, 0, 0, val[3] % 256>>

\* The conversion applied to vals by a match arm of the given value type.
parse_value(ty, vals) ==
    CASE ty = "bool" -> to_bool(vals)
      [] ty = "usize" -> to_usize(vals)
      [] ty = "i32" -> to_i32(vals)
      [] ty = "u32" -> to_u32(vals)
      [] ty = "f32" -> to_f32(vals)
      [] ty = "focus" -> FocusTarget_from(vals)
      [] OTHER -> [panic |-> FALSE, val |-> enum_from_u8(ty, vals[1])]

---------------------------------------------------------------------------
(* Command vocabulary: the match arms of the per-domain parsers and        *)
(* builders.  The variants of EqualizerParameter and DynamicsParameter     *)
(* carried by Input and Output commands are named Equalizer_X, Dynamics_X. *)

\* MonitorCmd::parse, the match arms: <<level2, level3, variant, value type>>;
\* level2 = -1 stands for the wildcard pattern.
MonitorCmd_parse_table ==
  <<
    <<0, 0, "Volume", "f32">>,
    <<0, 1, "TalkbackEnable", "bool">>,
    <<0, 2, "ListenbackEnable", "bool">>,
    <<0, 5, "TalkbackVolume", "f32">>,
    <<0, 6, "ListenbackVolume", "f32">>,
    <<0, 7, "Focus", "focus">>,
    <<0, 8, "ReturnAssign", "usize">>
  >>

\* MonitorCmd::build, the match arms: <<variant, appender, level2, level3>>.
MonitorCmd_build_table ==
  <<
    <<"Volume", "f32", 0, 0>>,
    <<"TalkbackEnable", "u8", 0, 1>>,
    <<"ListenbackEnable", "u8", 0, 2>>,
    <<"TalkbackVolume", "f32", 0, 5>>,
    <<"ListenbackVolume", "f32", 0, 6>>,
    <<"Focus", "data", 0, 7>>,
    <<"ReturnAssign", "u8", 0, 8>>
  >>

\* InputCmd::parse, the match arms: <<level2, level3, variant, value type>>;
\* level2 = -1 stands for the wildcard pattern.
InputCmd_parse_table ==
  <<
    <<0, 0, "Phase", "bool">>,
    <<0, 1, "Pair", "bool">>,
    <<0, 2, "Gain", "i32">>,
    <<0, 3, "Swap", "bool">>,
    <<0, 4, "StereoMode", "InputStereoPairMode">>,
    <<0, 5, "Width", "f32">>,
    <<0, 6, "Limitter", "bool">>,
    <<0, 7, "Lookahead", "bool">>,
    <<0, 8, "Softclip", "bool">>,
    <<0, 9, "Pad", "bool">>,
    <<0, 11, "Phantom", "bool">>,
    <<1, 0, "Equalizer_Enable", "bool">>,
    <<2, 0, "Equalizer_HpfEnable", "bool">>,
    <<2, 1, "Equalizer_HpfSlope", "RollOffLevel">>,
    <<2, 2, "Equalizer_HpfFreq", "u32">>,
    <<3, 0, "Equalizer_LfEnable", "bool">>,
    <<3, 1, "Equalizer_LfType", "FilterType5">>,
    <<3, 2, "Equalizer_LfFreq", "u32">>,
    <<3, 3, "Equalizer_LfGain", "f32">>,
    <<3, 4, "Equalizer_LfWidth", "f32">>,
    <<4, 0, "Equalizer_LmfEnable", "bool">>,
    <<4, 1, "Equalizer_LmfType", "FilterType4">>,
    <<4, 2, "Equalizer_LmfFreq", "u32">>,
    <<4, 3, "Equalizer_LmfGain", "f32">>,
    <<4, 4, "Equalizer_LmfWidth", "f32">>,
    <<5, 0, "Equalizer_MfEnable", "bool">>,
    <<5, 1, "Equalizer_MfType", "FilterType4">>,
    <<5, 2, "Equalizer_MfFreq", "u32">>,
    <<5, 3, "Equalizer_MfGain", "f32">>,
    <<5, 4, "Equalizer_MfWidth", "f32">>,
    <<6, 0, "Equalizer_HmfEnable", "bool">>,
    <<6, 1, "Equalizer_HmfType", "FilterType4">>,
    <<6, 2, "Equalizer_HmfFreq", "u32">>,
    <<6, 3, "Equalizer_HmfGain", "f32">>,
    <<6, 4, "Equalizer_HmfWidth", "f32">>,
    <<7, 0, "Equalizer_HfEnable", "bool">>,
    <<7, 1, "Equalizer_HfType", "FilterType5">>,
    <<7, 2, "Equalizer_HfFreq", "u32">>,
    <<7, 3, "Equalizer_HfGain", "f32">>,
    <<7, 4, "Equalizer_HfWidth", "f32">>,
    <<8, 0, "Equalizer_LpfEnable", "bool">>,
    <<8, 1, "Equalizer_LpfSlope", "RollOffLevel">>,
    <<8, 2, "Equalizer_LpfFreq", "u32">>,
    <<9, 0, "Dynamics_Enable", "bool">>,
    <<10, 0, "Dynamics_CompEnable", "bool">>,
    <<10, 1, "Dynamics_CompThreshold", "i32">>,
    <<10, 2, "Dynamics_CompRatio", "f32">>,
    <<10, 3, "Dynamics_CompAttack", "u32">>,
    <<10, 4, "Dynamics_CompRelease", "u32">>,
    <<10, 5, "Dynamics_CompGain", "f32">>,
    <<10, 6, "Dynamics_CompDetectMode", "LevelDetectMode">>,
    <<11, 0, "Dynamics_LevelerEnable", "bool">>,
    <<11, 1, "Dynamics_LevelerMode", "LevelerMode">>,
    <<11, 2, "Dynamics_LevelerMakeup", "u32">>,
    <<11, 3, "Dynamics_LevelerReduce", "u32">>,
    <<12, 0, "ReverbSend", "f32">>,
    <<12, 2, "ReverbLrBalance", "f32">>
  >>

\* InputCmd::build, the match arms: <<variant, appender, level2, level3>>.
InputCmd_build_table ==
  <<
    <<"Phase", "u8", 0, 0>>,
    <<"Pair", "u8", 0, 1>>,
    <<"Gain", "i32", 0, 2>>,
    <<"Swap", "u8", 0, 3>>,
    <<"StereoMode", "u8", 0, 4>>,
    <<"Width", "f32", 0, 5>>,
    <<"Limitter", "u8", 0, 6>>,
    <<"Lookahead", "u8", 0, 7>>,
    <<"Softclip", "u8", 0, 8>>,
    <<"Pad", "u8", 0, 9>>,
    <<"Phantom", "u8", 0, 11>>,
    <<"Equalizer_Enable", "u8", 1, 0>>,
    <<"Equalizer_HpfEnable", "u8", 2, 0>>,
    <<"Equalizer_HpfSlope", "u8", 2, 1>>,
    <<"Equalizer_HpfFreq", "u32", 2, 2>>,
    <<"Equalizer_LfEnable", "u8", 3, 0>>,
    <<"Equalizer_LfType", "u8", 3, 1>>,
    <<"Equalizer_LfFreq", "u32", 3, 2>>,
    <<"Equalizer_LfGain", "f32", 3, 3>>,
    <<"Equalizer_LfWidth", "f32", 3, 4>>,
    <<"Equalizer_LmfEnable", "u8", 4, 0>>,
    <<"Equalizer_LmfType", "u8", 4, 1>>,
    <<"Equalizer_LmfFreq", "u32", 4, 2>>,
    <<"Equalizer_LmfGain", "f32", 4, 3>>,
    <<"Equalizer_LmfWidth", "f32", 4, 4>>,
    <<"Equalizer_MfEnable", "u8", 5, 0>>,
    <<"Equalizer_MfType", "u8", 5, 1>>,
    <<"Equalizer_MfFreq", "u32", 5, 2>>,
    <<"Equalizer_MfGain", "f32", 5, 3>>,
    <<"Equalizer_MfWidth", "f32", 5, 4>>,
    <<"Equalizer_HmfEnable", "u8", 6, 0>>,
    <<"Equalizer_HmfType", "u8", 6, 1>>,
    <<"Equalizer_HmfFreq", "u32", 6, 2>>,
    <<"Equalizer_HmfGain", "f32", 6, 3>>,
    <<"Equalizer_HmfWidth", "f32", 6, 4>>,
    <<"Equalizer_HfEnable", "u8", 7, 0>>,
    <<"Equalizer_HfType", "u8", 7, 1>>,
    <<"Equalizer_HfFreq", "u32", 7, 2>>,
    <<"Equalizer_HfGain", "f32", 7, 3>>,
    <<"Equalizer_HfWidth", "f32", 7, 4>>,
    <<"Equalizer_LpfEnable", "u8", 8, 0>>,
    <<"Equalizer_LpfSlope", "u8", 8, 1>>,
    <<"Equalizer_LpfFreq", "u32", 8, 2>>,
    <<"Dynamics_Enable", "u8", 9, 0>>,
    <<"Dynamics_CompEnable", "u8", 10, 0>>,
    <<"Dynamics_CompThreshold", "i32", 10, 1>>,
    <<"Dynamics_CompRatio", "f32", 10, 2>>,
    <<"Dynamics_CompAttack", "u32", 10, 3>>,
    <<"Dynamics_CompRelease", "u32", 10, 4>>,
    <<"Dynamics_CompGain", "f32", 10, 5>>,
    <<"Dynamics_CompDetectMode", "u8", 10, 6>>,
    <<"Dynamics_LevelerEnable", "u8", 11, 0>>,
    <<"Dynamics_LevelerMode", "u8", 11, 1>>,
    <<"Dynamics_LevelerMakeup", "u32", 11, 2>>,
    <<"Dynamics_LevelerReduce", "u32", 11, 3>>,
    <<"ReverbSend", "f32", 12, 0>>,
    <<"ReverbLrBalance", "f32", 12, 2>>
  >>

\* MixerCmd::parse, the match arms: <<level2, level3, variant, value type>>;
\* level2 = -1 stands for the wildcard pattern.
MixerCmd_parse_table ==
  <<
    <<0, 0, "OutputAssign", "usize">>,
    <<0, 1, "OutputMute", "bool">>,
    <<0, 2, "OutputVolume", "f32">>,
    <<1, 0, "ReverbSend", "f32">>,
    <<1, 1, "ReverbReturn", "f32">>,
    <<-1, 0, "SourceMute", "bool">>,
    <<-1, 1, "SourceSolo", "bool">>,
    <<-1, 2, "SourceMonauralLrBalance", "f32">>,
    <<-1, 3, "SourceGain", "f32">>,
    <<-1, 4, "SourceStereoMode", "SourceStereoPairMode">>,
    <<-1, 5, "SourceStereoLrBalance", "f32">>,
    <<-1, 6, "SourceStereoWidth", "f32">>
  >>

\* MixerCmd::build, the match arms: <<variant, appender, level2, level3>>.
MixerCmd_build_table ==
  <<
    <<"OutputAssign", "u8", 0, 0>>,
    <<"OutputMute", "u8", 0, 1>>,
    <<"OutputVolume", "f32", 0, 2>>,
    <<"ReverbSend", "f32", 1, 0>>,
    <<"ReverbReturn", "f32", 1, 1>>,
    <<"SourceMute", "u8", -1, 0>>,
    <<"SourceSolo", "u8", -1, 1>>,
    <<"SourceMonauralLrBalance", "f32", -1, 2>>,
    <<"SourceGain", "f32", -1, 3>>,
    <<"SourceStereoMode", "u8", -1, 4>>,
    <<"SourceStereoLrBalance", "f32", -1, 5>>,
    <<"SourceStereoWidth", "f32", -1, 6>>
  >>

\* OutputCmd::parse, the match arms: <<level2, level3, variant, value type>>;
\* level2 = -1 stands for the wildcard pattern.
OutputCmd_parse_table ==
  <<
    <<0, 0, "Equalizer_Enable", "bool">>,
    <<1, 0, "Equalizer_HpfEnable", "bool">>,
    <<1, 1, "Equalizer_HpfSlope", "RollOffLevel">>,
    <<1, 2, "Equalizer_HpfFreq", "u32">>,
    <<2, 0, "Equalizer_LfEnable", "bool">>,
    <<2, 1, "Equalizer_LfType", "FilterType5">>,
    <<2, 2, "Equalizer_LfFreq", "u32">>,
    <<2, 3, "Equalizer_LfGain", "f32">>,
    <<2, 4, "Equalizer_LfWidth", "f32">>,
    <<3, 0, "Equalizer_LmfEnable", "bool">>,
    <<3, 1, "Equalizer_LmfType", "FilterType4">>,
    <<3, 2, "Equalizer_LmfFreq", "u32">>,
    <<3, 3, "Equalizer_LmfGain", "f32">>,
    <<3, 4, "Equalizer_LmfWidth", "f32">>,
    <<4, 0, "Equalizer_MfEnable", "bool">>,
    <<4, 1, "Equalizer_MfType", "FilterType4">>,
    <<4, 2, "Equalizer_MfFreq", "u32">>,
    <<4, 3, "Equalizer_MfGain", "f32">>,
    <<4, 4, "Equalizer_MfWidth", "f32">>,
    <<5, 0, "Equalizer_HmfEnable", "bool">>,
    <<5, 1, "Equalizer_HmfType", "FilterType4">>,
    <<5, 2, "Equalizer_HmfFreq", "u32">>,
    <<5, 3, "Equalizer_HmfGain", "f32">>,
    <<5, 4, "Equalizer_HmfWidth", "f32">>,
    <<6, 0, "Equalizer_HfEnable", "bool">>,
    <<6, 1, "Equalizer_HfType", "FilterType5">>,
    <<6, 2, "Equalizer_HfFreq", "u32">>,
    <<6, 3, "Equalizer_HfGain", "f32">>,
    <<6, 4, "Equalizer_HfWidth", "f32">>,
    <<7, 0, "Equalizer_LpfEnable", "bool">>,
    <<7, 1, "Equalizer_LpfSlope", "RollOffLevel">>,
    <<7, 2, "Equalizer_LpfFreq", "u32">>,
    <<8, 0, "Dynamics_Enable", "bool">>,
    <<9, 0, "Dynamics_CompEnable", "bool">>,
    <<9, 1, "Dynamics_CompThreshold", "i32">>,
    <<9, 2, "Dynamics_CompRatio", "f32">>,
    <<9, 3, "Dynamics_CompAttack", "u32">>,
    <<9, 4, "Dynamics_CompRelease", "u32">>,
    <<9, 5, "Dynamics_CompGain", "f32">>,
    <<9, 6, "Dynamics_CompDetectMode", "LevelDetectMode">>,
    <<10, 0, "Dynamics_LevelerEnable", "bool">>,
    <<10, 1, "Dynamics_LevelerMode", "LevelerMode">>,
    <<10, 2, "Dynamics_LevelerMakeup", "u32">>,
    <<10, 3, "Dynamics_LevelerReduce", "u32">>,
    <<11, 0, "ReverbSend", "f32">>,
    <<11, 1, "ReverbReturn", "f32">>,
    <<12, 0, "MasterMonitor", "bool">>,
    <<12, 1, "MasterTalkback", "bool">>,
    <<12, 2, "MasterListenback", "bool">>
  >>

\* OutputCmd::build, the match arms: <<variant, appender, level2, level3>>.
OutputCmd_build_table ==
  <<
    <<"Equalizer_Enable", "u8", 0, 0>>,
    <<"Equalizer_HpfEnable", "u8", 1, 0>>,
    <<"Equalizer_HpfSlope", "u8", 1, 1>>,
    <<"Equalizer_HpfFreq", "u32", 1, 2>>,
    <<"Equalizer_LfEnable", "u8", 2, 0>>,
    <<"Equalizer_LfType", "u8", 2, 1>>,
    <<"Equalizer_LfFreq", "u32", 2, 2>>,
    <<"Equalizer_LfGain", "f32", 2, 3>>,
    <<"Equalizer_LfWidth", "f32", 2, 4>>,
    <<"Equalizer_LmfEnable", "u8", 3, 0>>,
    <<"Equalizer_LmfType", "u8", 3, 1>>,
    <<"Equalizer_LmfFreq", "u32", 3, 2>>,
    <<"Equalizer_LmfGain", "f32", 3, 3>>,
    <<"Equalizer_LmfWidth", "f32", 3, 4>>,
    <<"Equalizer_MfEnable", "u8", 4, 0>>,
    <<"Equalizer_MfType", "u8", 4, 1>>,
    <<"Equalizer_MfFreq", "u32", 4, 2>>,
    <<"Equalizer_MfGain", "f32", 4, 3>>,
    <<"Equalizer_MfWidth", "f32", 4, 4>>,
    <<"Equalizer_HmfEnable", "u8", 5, 0>>,
    <<"Equalizer_HmfType", "u8", 5, 1>>,
    <<"Equalizer_HmfFreq", "u32", 5, 2>>,
    <<"Equalizer_HmfGain", "f32", 5, 3>>,
    <<"Equalizer_HmfWidth", "f32", 5, 4>>,
    <<"Equalizer_HfEnable", "u8", 6, 0>>,
    <<"Equalizer_HfType", "u8", 6, 1>>,
    <<"Equalizer_HfFreq", "u32", 6, 2>>,
    <<"Equalizer_HfGain", "f32", 6, 3>>,
    <<"Equalizer_HfWidth", "f32", 6, 4>>,
    <<"Equalizer_LpfEnable", "u8", 7, 0>>,
    <<"Equalizer_LpfSlope", "u8", 7, 1>>,
    <<"Equalizer_LpfFreq", "u32", 7, 2>>,
    <<"Dynamics_Enable", "u8", 8, 0>>,
    <<"Dynamics_CompEnable", "u8", 9, 0>>,
    <<"Dynamics_CompThreshold", "i32", 9, 1>>,
    <<"Dynamics_CompRatio", "f32", 9, 2>>,
    <<"Dynamics_CompAttack", "u32", 9, 3>>,
    <<"Dynamics_CompRelease", "u32", 9, 4>>,
    <<"Dynamics_CompGain", "f32", 9, 5>>,
    <<"Dynamics_CompDetectMode", "u8", 9, 6>>,
    <<"Dynamics_LevelerEnable", "u8", 10, 0>>,
    <<"Dynamics_LevelerMode", "u8", 10, 1>>,
    <<"Dynamics_LevelerMakeup", "u32", 10, 2>>,
    <<"Dynamics_LevelerReduce", "u32", 10, 3>>,
    <<"ReverbSend", "f32", 11, 0>>,
    <<"ReverbReturn", "f32", 11, 1>>,
    <<"MasterMonitor", "u8", 12, 0>>,
    <<"MasterTalkback", "u8", 12, 1>>,
    <<"MasterListenback", "u8", 12, 2>>
  >>

\* ReverbCmd::parse, the match arms: <<level2, level3, variant, value type>>;
\* level2 = -1 stands for the wildcard pattern.
ReverbCmd_parse_table ==
  <<
    <<0, 0, "Enable", "bool">>,
    <<0, 1, "Split", "SplitPoint">>,
    <<0, 2, "PreDelay", "u32">>,
    <<0, 3, "ShelfFilterFreq", "u32">>,
    <<0, 4, "ShelfFilterAttenuation", "i32">>,
    <<0, 5, "DecayTime", "u32">>,
    <<0, 6, "LowFreqTime", "u32">>,
    <<0, 7, "MiddleFreqTime", "u32">>,
    <<0, 8, "HighFreqTime", "u32">>,
    <<0, 9, "LowFreqCrossover", "u32">>,
    <<0, 10, "HighFreqCrossover", "u32">>,
    <<0, 11, "Width", "f32">>,
    <<0, 12, "ReflectionMode", "RoomShape">>,
    <<0, 13, "ReflectionSize", "u32">>,
    <<0, 14, "ReflectionLevel", "f32">>
  >>

\* ReverbCmd::build, the match arms: <<variant, appender, level2, level3>>.
ReverbCmd_build_table ==
  <<
    <<"Enable", "u8", 0, 0>>,
    <<"Split", "u8", 0, 1>>,
    <<"PreDelay", "u32", 0, 2>>,
    <<"ShelfFilterFreq", "u32", 0, 3>>,
    <<"ShelfFilterAttenuation", "i32", 0, 4>>,
    <<"DecayTime", "u32", 0, 5>>,
    <<"LowFreqTime", "u32", 0, 6>>,
    <<"MiddleFreqTime", "u32", 0, 7>>,
    <<"HighFreqTime", "u32", 0, 8>>,
    <<"LowFreqCrossover", "u32", 0, 9>>,
    <<"HighFreqCrossover", "u32", 0, 10>>,
    <<"Width", "f32", 0, 11>>,
    <<"ReflectionMode", "u8", 0, 12>>,
    <<"ReflectionSize", "u32", 0, 13>>,
    <<"ReflectionLevel", "f32", 0, 14>>
  >>

---------------------------------------------------------------------------
(* Frame encoder.                                                          *)

\* fn append_data
append_data(identifier, vals) ==
    IF Len(vals) = 4
    THEN <<CMD_QUADLET_SINGLE>> \o identifier \o vals
    ELSE <<CMD_BYTE_SINGLE>> \o vals \o identifier

\* append_u8 with the second and third level in each other's place
append_u8_swapped(first_level, second_level, third_level, ch, val) ==
    <<CMD_BYTE_SINGLE, val, ch % 256, second_level, third_level, first_level>>

\* fn append_u8; val is the byte u8::from(val), ch is cast by `ch as u8`
append_u8(first_level, second_level, third_level, ch, val) ==
    <<CMD_BYTE_SINGLE, val, ch % 256, third_level, second_level, first_level>>

\* append_f32 with the value ahead of the identifier, as in a byte-single record
append_f32_value_first(first_level, second_level, third_level, ch, val) ==
    <<CMD_QUADLET_SINGLE>> \o f32_to_le_bytes(val)
        \o <<ch % 256, third_level, second_level, first_level>>

\* fn append_f32
append_f32(first_level, second_level, third_level, ch, val) ==
    <<CMD_QUADLET_SINGLE, ch % 256, third_level, second_level, first_level>>
        \o f32_to_le_bytes(val)

\* fn append_i32
append_i32(first_level, second_level, third_level, ch, val) ==
    append_f32(first_level, second_level, third_level, ch, i32_as_f32(val))

\* fn append_u32
append_u32(first_level, second_level, third_level, ch, val) ==
    append_f32(first_level, second_level, third_level, ch, u32_as_f32(val))

\* fn append_resource
append_resource(usage, flag) ==
    <<CMD_RESOURCE>> \o f32_to_le_bytes(usage) \o <<flag>>

\* The byte a typed value is converted to before append_u8: `*val as u8` for
\* a bool or a usize, u8::from(val) for an enumeration.
u8_of_value(val) ==
    IF val[1] \in {"bool", "usize"} THEN val[2] % 256 ELSE u8_from_enum(val)

\* The first-level identifier of each domain.
FirstLevel == [Monitor |-> 0, Input |-> 1, Mixer |-> 2, Output |-> 3, Reverb |-> 4]

Domains == DOMAIN FirstLevel

\* The bytes of a Vec<u8> value
bytes_of(val) == Tail(val)

\* One match arm of XCmd::build.  In the mixer arms the second level is
\* (mixer_src_ch + 2) as u8; a source channel that DspCmd::parse produced by
\* wrapping subtraction (-2 and -1 stand for 2^64 - 2 and 2^64 - 1) wraps back.
DomainCmd_build(table, cmd) ==
    IF cmd.name = "Reserved"
    THEN append_data(cmd.id, bytes_of(cmd.val))
    ELSE LET row == table[CHOOSE i \in DOMAIN table : table[i][1] = cmd.name]
             l1 == FirstLevel[cmd.dom]
             l2 == IF row[3] = -1 THEN (cmd.src + 2) % 256 ELSE row[3]
             l3 == row[4]
         IN  CASE row[2] = "u8" -> append_u8(l1, l2, l3, cmd.ch, u8_of_value(cmd.val))
               [] row[2] = "i32" -> append_i32(l1, l2, l3, cmd.ch, cmd.val[2])
               [] row[2] = "u32" -> append_u32(l1, l2, l3, cmd.ch, cmd.val[2])
               [] row[2] = "f32" -> append_f32(l1, l2, l3, cmd.ch, cmd.val)
               [] row[2] = "data" ->
                     append_data(<<0, l3, l2, l1>>, Vec_from_FocusTarget(cmd.val))

MonitorCmd_build(cmd) == DomainCmd_build(MonitorCmd_build_table, cmd)
InputCmd_build(cmd) == DomainCmd_build(InputCmd_build_table, cmd)
MixerCmd_build(cmd) == DomainCmd_build(MixerCmd_build_table, cmd)
OutputCmd_build(cmd) == DomainCmd_build(OutputCmd_build_table, cmd)
ReverbCmd_build(cmd) == DomainCmd_build(ReverbCmd_build_table, cmd)

\* ResourceCmd::build; Usage(usage, flag) keeps the flag in the ch field.
ResourceCmd_build(cmd) ==
    IF cmd.name = "Usage" THEN append_resource(cmd.val, cmd.ch)
    ELSE bytes_of(cmd.val)

\* DspCmd::build
DspCmd_build(cmd) ==
    CASE cmd.dom = "Monitor" -> MonitorCmd_build(cmd)
      [] cmd.dom = "Input" -> InputCmd_build(cmd)
      [] cmd.dom = "Mixer" -> MixerCmd_build(cmd)
      [] cmd.dom = "Output" -> OutputCmd_build(cmd)
      [] cmd.dom = "Reverb" -> ReverbCmd_build(cmd)
      [] cmd.dom = "Resource" -> ResourceCmd_build(cmd)
      [] cmd.dom = "Reserved" -> bytes_of(cmd.val)

\* cmds.iter().for_each(|cmd| cmd.build(&mut frame))
build_all(cmds) == Flatten([i \in DOMAIN cmds |-> DspCmd_build(cmds[i])])

---------------------------------------------------------------------------
(* Frame decoder.                                                          *)

MkCmd(dom, name, ch, src, val) ==
    [dom |-> dom, name |-> name, ch |-> ch, src |-> src, id |-> <<>>, val |-> val]

\* XCmd::Reserved(identifier.to_vec(), vals.to_vec())
MkDomainReserved(dom, identifier, vals) ==
    [dom |-> dom, name |-> "Reserved", ch |-> 0, src |-> 0, id |-> identifier,
     val |-> <<"bytes">> \o vals]

\* DspCmd::Reserved(raw.to_vec())
MkReserved(raw) ==
    [dom |-> "Reserved", name |-> "Reserved", ch |-> 0, src |-> 0, id |-> <<>>,
     val |-> <<"bytes">> \o raw]

\* The first match arm that fits (identifier[3], identifier[2], identifier[1]),
\* 0 when only the catch-all arm fits.
match_arm(table, identifier) ==
    LET hits == {i \in DOMAIN table :
                    /\ table[i][1] \in {-1, identifier[3]}
                    /\ table[i][2] = identifier[2]}
    IN  IF hits = {} THEN 0 ELSE Min(hits)

\* XCmd::parse.  MonitorCmd and ReverbCmd carry no channel.  The wildcard
\* arms of MixerCmd compute mixer_src_ch - 2 on a usize: below 2 the
\* subtraction panics under overflow checks and wraps otherwise.
DomainCmd_parse(dom, table, identifier, vals) ==
    LET arm == match_arm(table, identifier) IN
    IF arm = 0
    THEN [panic |-> FALSE, cmd |-> MkDomainReserved(dom, identifier, vals)]
    ELSE LET row == table[arm]
             pv == parse_value(row[4], vals)
             wild == row[1] = -1
             underflow == wild /\ identifier[3] < 2
             ch == IF dom \in {"Monitor", "Reverb"} THEN 0 ELSE identifier[1]
             src == IF wild THEN identifier[3] - 2 ELSE 0
         IN  [panic |-> pv.panic \/ (underflow /\ overflow_checks),
              cmd |-> MkCmd(dom, row[3], ch, src, pv.val)]

MonitorCmd_parse(identifier, vals) ==
    DomainCmd_parse("Monitor", MonitorCmd_parse_table, identifier, vals)
InputCmd_parse(identifier, vals) ==
    DomainCmd_parse("Input", InputCmd_parse_table, identifier, vals)
MixerCmd_parse(identifier, vals) ==
    DomainCmd_parse("Mixer", MixerCmd_parse_table, identifier, vals)
OutputCmd_parse(identifier, vals) ==
    DomainCmd_parse("Output", OutputCmd_parse_table, identifier, vals)
ReverbCmd_parse(identifier, vals) ==
    DomainCmd_parse("Reverb", ReverbCmd_parse_table, identifier, vals)

\* ResourceCmd::parse on raw[..6]
ResourceCmd_parse(r) ==
    [dom |-> "Resource", name |-> "Usage", ch |-> r[6], src |-> 0, id |-> <<>>,
     val |-> f32_from_le_bytes(Slice(r, 1, 5))]

\* The dispatch on first_level for the domains 0x00..0x04.
parse_by_domain(first_level, identifier, vals) ==
    CASE first_level = 0 -> MonitorCmd_parse(identifier, vals)
      [] first_level = 1 -> InputCmd_parse(identifier, vals)
      [] first_level = 2 -> MixerCmd_parse(identifier, vals)
      [] first_level = 3 -> OutputCmd_parse(identifier, vals)
      [] first_level = 4 -> ReverbCmd_parse(identifier, vals)

Stop == [panic |-> FALSE, consumed |-> 0, cmds |-> <<>>]
Panic == [panic |-> TRUE, consumed |-> 0, cmds |-> <<>>]

\* A fan-out that leaves the channel byte of the shared identifier as it is.
parse_multiple_shared_channel(raw, width) ==
    IF Len(raw) < 6 THEN Panic
    ELSE LET count == raw[2]
             length == 6 + count * width
             identifier == Slice(raw, 2, 6)
             first_level == identifier[4]
         IN  IF length > Len(raw) THEN Panic
             ELSE IF first_level <= 4
             THEN LET one(i) == parse_by_domain(first_level, identifier,
                                    Slice(raw, 6 + i * width, 6 + i * width + width))
                      rs == [k \in 1..count |-> one(k - 1)]
                  IN  IF \E k \in 1..count : rs[k].panic THEN Panic
                      ELSE [panic |-> FALSE, consumed |-> length, cmds |-> [k \in 1..count |-> rs[k].cmd]]
             ELSE [panic |-> FALSE, consumed |-> length, cmds |-> <<MkReserved(Slice(raw, 0, length))>>]

\* The CMD_BYTE_MULTIPLE (width 1) and CMD_QUADLET_MULTIPLE (width 4) arms.
parse_multiple(raw, width) ==
    IF Len(raw) < 6 THEN Panic
    ELSE LET count == raw[2]
             length == 6 + count * width
             identifier == Slice(raw, 2, 6)
             first_level == identifier[4]
         IN  IF length > Len(raw) THEN Panic
             ELSE IF first_level <= 4
             THEN LET one(i) == parse_by_domain(first_level,
                                    <<i % 256>> \o Tail(identifier),
                                    Slice(raw, 6 + i * width, 6 + i * width + width))
                      rs == [k \in 1..count |-> one(k - 1)]
                  IN  IF \E k \in 1..count : rs[k].panic THEN Panic
                      ELSE [panic |-> FALSE, consumed |-> length,
                            cmds |-> [k \in 1..count |-> rs[k].cmd]]
             ELSE [panic |-> FALSE, consumed |-> length,
                   cmds |-> <<MkReserved(Slice(raw, 0, length))>>]

\* The CMD_BYTE_SINGLE and CMD_QUADLET_SINGLE arms.
parse_single(raw, length, identifier, vals) ==
    LET first_level == identifier[4] IN
    IF first_level <= 4
    THEN LET r == parse_by_domain(first_level, identifier, vals) IN
         IF r.panic THEN Panic
         ELSE [panic |-> FALSE, consumed |-> length, cmds |-> <<r.cmd>>]
    ELSE [panic |-> FALSE, consumed |-> length,
          cmds |-> <<MkReserved(Slice(raw, 0, length))>>]

\* DspCmd::parse: [panic, consumed, cmds]; raw is not empty.
DspCmd_parse(raw) ==
    CASE raw[1] = CMD_RESOURCE ->
            IF Len(raw) < CMD_RESOURCE_LENGTH THEN Panic
            ELSE [panic |-> FALSE, consumed |-> CMD_RESOURCE_LENGTH,
                  cmds |-> <<ResourceCmd_parse(Slice(raw, 0, CMD_RESOURCE_LENGTH))>>]
      [] raw[1] = CMD_BYTE_MULTIPLE -> parse_multiple(raw, 1)
      [] raw[1] = CMD_QUADLET_MULTIPLE -> parse_multiple(raw, 4)
      [] raw[1] = CMD_DRAIN -> [panic |-> FALSE, consumed |-> 1, cmds |-> <<>>]
      [] raw[1] = CMD_END -> [panic |-> FALSE, consumed |-> Len(raw), cmds |-> <<>>]
      [] raw[1] = CMD_BYTE_SINGLE ->
            IF Len(raw) < CMD_BYTE_SINGLE_LENGTH THEN Panic
            ELSE parse_single(raw, CMD_BYTE_SINGLE_LENGTH,
                              Slice(raw, 2, 6), Slice(raw, 1, 2))
      [] raw[1] = CMD_QUADLET_SINGLE ->
            IF Len(raw) < CMD_QUADLET_SINGLE_LENGTH THEN Panic
            ELSE parse_single(raw, CMD_QUADLET_SINGLE_LENGTH,
                              Slice(raw, 1, 5), Slice(raw, 5, 9))
      [] OTHER -> Stop

---------------------------------------------------------------------------
(* Reception reassembler: CommandDspMessageHandler.                        *)

\* The record lengths with the drain marker taken for padding.
padding_record_length_no_drain(buf) ==
    CASE buf[1] \in {CMD_RESOURCE, CMD_BYTE_SINGLE} -> 6
      [] buf[1] = CMD_QUADLET_MULTIPLE -> 6 + 4 * buf[2]
      [] buf[1] = CMD_BYTE_MULTIPLE -> 6 + buf[2]
      [] buf[1] = CMD_QUADLET_SINGLE -> 9
      [] OTHER -> 0

\* The record lengths with the quadlet-single record taken as long as the
\* byte-single one.
padding_record_length_short_quadlet(buf) ==
    CASE buf[1] \in {CMD_RESOURCE, CMD_BYTE_SINGLE, CMD_QUADLET_SINGLE} -> 6
      [] buf[1] = CMD_QUADLET_MULTIPLE -> 6 + 4 * buf[2]
      [] buf[1] = CMD_BYTE_MULTIPLE -> 6 + buf[2]
      [] buf[1] = CMD_DRAIN -> 1
      [] OTHER -> 0

\* The record length remove_padding reads off the leading bytes of buf
\* (more than 4 bytes long).
padding_record_length(buf) ==
    CASE buf[1] = CMD_RESOURCE -> CMD_RESOURCE_LENGTH
      [] buf[1] = CMD_QUADLET_MULTIPLE -> 6 + 4 * buf[2]
      [] buf[1] = CMD_BYTE_MULTIPLE -> 6 + buf[2]
      [] buf[1] = CMD_DRAIN -> 1
      [] buf[1] = CMD_END -> 0
      [] buf[1] = CMD_QUADLET_SINGLE -> CMD_QUADLET_SINGLE_LENGTH
      [] buf[1] = CMD_BYTE_SINGLE -> CMD_BYTE_SINGLE_LENGTH
      [] OTHER -> 0

\* One round of the while loop of remove_padding on [buf, count, done]; count
\* is -1 when the slice &buf[length..] is out of range.
padding_cut(s, length) ==
    IF length = 0 THEN [buf |-> s.buf, count |-> s.count, done |-> TRUE]
    ELSE IF length > Len(s.buf) THEN [buf |-> s.buf, count |-> -1, done |-> TRUE]
    ELSE [buf |-> Drop(s.buf, length), count |-> s.count + length, done |-> FALSE]

padding_round(s) ==
    IF s.done THEN s
    ELSE IF Len(s.buf) > 4 THEN padding_cut(s, padding_record_length(s.buf))
    ELSE [buf |-> s.buf, count |-> s.count, done |-> TRUE]

\* n rounds of the loop, by halves; a round after the exit changes nothing.
RECURSIVE padding_rounds(_, _)
padding_rounds(s, n) ==
    IF s.done \/ n = 0 THEN s
    ELSE IF n = 1 THEN padding_round(s)
    ELSE padding_rounds(padding_rounds(s, n \div 2), n - n \div 2)

\* The loop of remove_padding: the final value of count.  Every round but the
\* last takes at least one byte, so Len(buf) rounds complete the loop.
padding_walk(buf, count) ==
    padding_rounds([buf |-> buf, count |-> count, done |-> FALSE], Len(buf)).count

\* fn remove_padding: [panic, cache]
remove_padding(c) ==
    LET count == padding_walk(c, 0) IN
    IF count < 0 THEN [panic |-> TRUE, cache |-> c]
    ELSE [panic |-> FALSE, cache |-> Slice(c, 0, count)]

\* The numbering of the transmission side: the number after n modulo 255.
increment_seq_num_as_sender(n) == ((n + 1) % 256) % 255

\* fn increment_seq_num
increment_seq_num(n) == IF n = U8_MAX THEN 0 ELSE n + 1

\* cache_dsp_messages without the InTruncatedMessage state: a full-sized frame
\* is treated like a short one.
cache_dsp_messages_untruncated(h, frame) ==
    LET frame_seq == frame[2]
        s0 == IF h.state = "Initialized" THEN "Prepared" ELSE h.state
        n0 == IF h.state = "Initialized" THEN frame_seq ELSE h.seq_num
        r == remove_padding(h.cache \o Drop(frame, 2))
    IN
    IF n0 = frame_seq
    THEN IF Len(frame) > 4 /\ frame[3] # 0
         THEN [panic |-> r.panic, state |-> "Prepared", cache |-> r.cache,
               seq_num |-> increment_seq_num(frame_seq)]
         ELSE [panic |-> FALSE, state |-> "Prepared", cache |-> h.cache,
               seq_num |-> increment_seq_num(frame_seq)]
    ELSE [panic |-> FALSE, state |-> "Prepared", cache |-> <<>>, seq_num |-> n0]

\* cache_dsp_messages keeping the buffer when the sequence number is not the
\* expected one.
cache_dsp_messages_keeping(h, frame) ==
    LET frame_seq == frame[2]
        s0 == IF h.state = "Initialized" THEN "Prepared" ELSE h.state
        n0 == IF h.state = "Initialized" THEN frame_seq ELSE h.seq_num
        payload == Drop(frame, 2)
        n1 == increment_seq_num(frame_seq)
        r == remove_padding(h.cache \o payload)
    IN
    IF n0 # frame_seq
    THEN [panic |-> FALSE, state |-> "Prepared", cache |-> h.cache, seq_num |-> n0]
    ELSE IF s0 = "Prepared" /\ ~(Len(frame) > 4 /\ frame[3] # 0)
    THEN [panic |-> FALSE, state |-> s0, cache |-> h.cache, seq_num |-> n1]
    ELSE IF Len(frame) = MAXIMUM_DSP_FRAME_SIZE
    THEN [panic |-> FALSE, state |-> "InTruncatedMessage",
          cache |-> h.cache \o payload, seq_num |-> n1]
    ELSE [panic |-> r.panic, state |-> "Prepared", cache |-> r.cache, seq_num |-> n1]

\* cache_dsp_messages taking every full-sized frame for the opening of a
\* truncated message, whatever its first payload byte.
cache_dsp_messages_full_opens(h, frame) ==
    LET frame_seq == frame[2]
        s0 == IF h.state = "Initialized" THEN "Prepared" ELSE h.state
        n0 == IF h.state = "Initialized" THEN frame_seq ELSE h.seq_num
        payload == Drop(frame, 2)
        n1 == increment_seq_num(frame_seq)
        r == remove_padding(h.cache \o payload)
    IN
    IF n0 # frame_seq
    THEN [panic |-> FALSE, state |-> "Prepared", cache |-> <<>>, seq_num |-> n0]
    ELSE IF s0 = "Prepared" /\ Len(frame) < MAXIMUM_DSP_FRAME_SIZE
                            /\ ~(Len(frame) > 4 /\ frame[3] # 0)
    THEN [panic |-> FALSE, state |-> s0, cache |-> h.cache, seq_num |-> n1]
    ELSE IF Len(frame) = MAXIMUM_DSP_FRAME_SIZE
    THEN [panic |-> FALSE, state |-> "InTruncatedMessage",
          cache |-> h.cache \o payload, seq_num |-> n1]
    ELSE [panic |-> r.panic, state |-> "Prepared", cache |-> r.cache, seq_num |-> n1]

\* cache_dsp_messages emptying the buffer on an unexpected number without
\* leaving the truncated message.
cache_dsp_messages_staying(h, frame) ==
    LET frame_seq == frame[2]
        s0 == IF h.state = "Initialized" THEN "Prepared" ELSE h.state
        n0 == IF h.state = "Initialized" THEN frame_seq ELSE h.seq_num
        payload == Drop(frame, 2)
        n1 == increment_seq_num(frame_seq)
        r == remove_padding(h.cache \o payload)
    IN
    IF n0 # frame_seq
    THEN [panic |-> FALSE, state |-> s0, cache |-> <<>>, seq_num |-> n0]
    ELSE IF s0 = "Prepared" /\ ~(Len(frame) > 4 /\ frame[3] # 0)
    THEN [panic |-> FALSE, state |-> s0, cache |-> h.cache, seq_num |-> n1]
    ELSE IF Len(frame) = MAXIMUM_DSP_FRAME_SIZE
    THEN [panic |-> FALSE, state |-> "InTruncatedMessage",
          cache |-> h.cache \o payload, seq_num |-> n1]
    ELSE [panic |-> r.panic, state |-> "Prepared", cache |-> r.cache, seq_num |-> n1]

\* CommandDspMessageHandler::cache_dsp_messages on a frame of at least two
\* bytes: the handler fields after the call, [panic, state, cache, seq_num].
cache_dsp_messages(h, frame) ==
    LET frame_seq == frame[2]
        \* if self.state == ParserState::Initialized
        s0 == IF h.state = "Initialized" THEN "Prepared" ELSE h.state
        n0 == IF h.state = "Initialized" THEN frame_seq ELSE h.seq_num
        payload == Drop(frame, 2)
    IN
    IF n0 = frame_seq
    THEN LET n1 == increment_seq_num(frame_seq) IN
         IF s0 = "Prepared"
         THEN IF Len(frame) > 4 /\ frame[3] # 0
              THEN IF Len(frame) = MAXIMUM_DSP_FRAME_SIZE
                   THEN [panic |-> FALSE, state |-> "InTruncatedMessage",
                         cache |-> h.cache \o payload, seq_num |-> n1]
                   ELSE LET r == remove_padding(h.cache \o payload) IN
                        [panic |-> r.panic, state |-> "Prepared",
                         cache |-> r.cache, seq_num |-> n1]
              ELSE [panic |-> FALSE, state |-> s0, cache |-> h.cache, seq_num |-> n1]
         ELSE \* ParserState::InTruncatedMessage
              IF Len(frame) < MAXIMUM_DSP_FRAME_SIZE
              THEN LET r == remove_padding(h.cache \o payload) IN
                   [panic |-> r.panic, state |-> "Prepared",
                    cache |-> r.cache, seq_num |-> n1]
              ELSE [panic |-> FALSE, state |-> s0,
                    cache |-> h.cache \o payload, seq_num |-> n1]
    ELSE [panic |-> FALSE, state |-> "Prepared", cache |-> <<>>, seq_num |-> n0]

\* A query that looks at the buffer alone.
has_dsp_message_any_state(h) == Len(h.cache) > 0

\* CommandDspMessageHandler::has_dsp_message
has_dsp_message(h) == Len(h.cache) > 0 /\ h.state = "Prepared"

\* A round that puts the commands of a record in front of the earlier ones.
decode_step_prepending(s, r) ==
    IF r.panic
    THEN [panic |-> TRUE, cache |-> s.cache, cmds |-> s.cmds, done |-> TRUE]
    ELSE IF r.consumed = 0
    THEN [panic |-> FALSE, cache |-> s.cache, cmds |-> s.cmds, done |-> TRUE]
    ELSE [panic |-> FALSE, cache |-> Drop(s.cache, r.consumed),
          cmds |-> r.cmds \o s.cmds, done |-> FALSE]

\* One round of the while loop of decode_messages on [panic, cache, cmds, done];
\* r is the result of DspCmd::parse(&self.cache, &mut cmds).
decode_step(s, r) ==
    IF r.panic
    THEN [panic |-> TRUE, cache |-> s.cache, cmds |-> s.cmds, done |-> TRUE]
    ELSE IF r.consumed = 0
    THEN [panic |-> FALSE, cache |-> s.cache, cmds |-> s.cmds, done |-> TRUE]
    ELSE [panic |-> FALSE, cache |-> Drop(s.cache, r.consumed),
          cmds |-> s.cmds \o r.cmds, done |-> FALSE]

decode_round(s) ==
    IF s.done THEN s
    ELSE IF Len(s.cache) > 0 THEN decode_step(s, DspCmd_parse(s.cache))
    ELSE [panic |-> FALSE, cache |-> s.cache, cmds |-> s.cmds, done |-> TRUE]

\* n rounds of the loop, by halves; a round after the exit changes nothing.
RECURSIVE decode_loop(_, _)
decode_loop(s, n) ==
    IF s.done \/ n = 0 THEN s
    ELSE IF n = 1 THEN decode_round(s)
    ELSE decode_loop(decode_loop(s, n \div 2), n - n \div 2)

\* A decode_messages that parses one record per call.
decode_messages_once(c) ==
    decode_loop([panic |-> FALSE, cache |-> c, cmds |-> <<>>, done |-> FALSE], 1)

\* CommandDspMessageHandler::decode_messages: [panic, cache, cmds].  Every
\* round but the last drains at least one byte, so Len(c) + 1 rounds complete
\* the loop.
decode_messages(c) ==
    decode_loop([panic |-> FALSE, cache |-> c, cmds |-> <<>>, done |-> FALSE],
                Len(c) + 1)

\* The handler as one record.
handler == [state |-> state, cache |-> cache, seq_num |-> seq_num]

---------------------------------------------------------------------------
(* The peer: the device transmits command streams as notification frames   *)
(* [prefix byte, sequence number, payload, zero padding], at most          *)
(* MAXIMUM_DSP_FRAME_SIZE bytes each, numbered consecutively modulo 256.   *)

MaxFrames == 3        \* frames fed to the handler in one run
MaxLost == 1          \* frames the handler misses in one run

\* Command records used to compose the streams.
R_Volume == <<102, 0, 0, 0, 0, 0, 0, 128, 63>>      \* Monitor.Volume(1.0)
R_Talkback == <<105, 1, 0, 1, 0, 0>>                \* Monitor.TalkbackEnable(true)
R_Gain == <<102, 1, 2, 0, 1, 0, 0, 192, 64>>        \* Input.Gain(1, 6)
R_Listenback == <<73, 2, 0, 2, 12, 3, 1, 0>>        \* Output.MasterListenback(0..2, ..)
R_VolumeAsByte == <<105, 0, 0, 0, 0, 0>>            \* byte-wide record naming Monitor.Volume

C_Volume == MkCmd("Monitor", "Volume", 0, 0, <<"f32", 0, 127, 0>>)
C_Talkback == MkCmd("Monitor", "TalkbackEnable", 0, 0, <<"bool", 1>>)
C_Gain == MkCmd("Input", "Gain", 1, 0, <<"i32", 6>>)
C_Listenback0 == MkCmd("Output", "MasterListenback", 0, 0, <<"bool", 1>>)
C_Listenback1 == MkCmd("Output", "MasterListenback", 1, 0, <<"bool", 0>>)

\* A stream that fits one frame, and the commands it carries.
ShortStream == R_Volume \o R_Talkback
ShortStreamCmds == <<C_Volume, C_Talkback>>

\* A stream longer than one frame; the frame boundary falls inside R_Gain.
LongStream == Repeat(R_Volume, 27) \o R_Gain \o R_Listenback
LongStreamCmds == Repeat(<<C_Volume>>, 27) \o <<C_Gain, C_Listenback0, C_Listenback1>>

MaxPayload == MAXIMUM_DSP_FRAME_SIZE - 2

\* The i-th chunk of a stream (i from 0).
Chunk(stream, i) ==
    SubSeq(stream, MaxPayload * i + 1,
           IF Len(stream) < MaxPayload * (i + 1) THEN Len(stream) ELSE MaxPayload * (i + 1))

\* Zero padding of a payload up to a frame length that is a multiple of 4.
Padded(payload) == payload \o Repeat(<<0>>, (4 - ((Len(payload) + 2) % 4)) % 4)

\* The payloads the device can put into a frame.
Payload ==
    [ short |-> Padded(ShortStream),              \* a complete stream
      head |-> Chunk(LongStream, 0),              \* first frame of the long stream
      tail |-> Padded(Chunk(LongStream, 1)),      \* its continuation
      sense |-> <<0, 0>>,                         \* active sensing
      mismatch |-> Padded(R_VolumeAsByte),        \* record width unfit for its parameter
      unknown |-> <<1>> \o Repeat(<<0>>, MaxPayload - 1),   \* unrecognized leading tag
      blank |-> Repeat(<<0>>, MaxPayload),        \* full-sized frame of zero bytes
      drain |-> <<CMD_DRAIN, 0>> ]                \* frame of 4 bytes with a leading tag

FrameKinds == DOMAIN Payload

Frame(prefix, n, kind) == <<prefix, n>> \o Payload[kind]

\* The sequence number of the next frame: the next of the sender's numbering,
\* or the number the handler expects (the sender restarts there).
SeqChoices == {sender_seq, seq_num}

\* The log keeps the latest two frames fed to the handler, newest last.
\* kind, n: the frame and its number; in_order: n continues the sender's
\* numbering; gap: frames missed since the frame before; ok: the handler took
\* n for the expected number; pre, pre_len: state and buffer length before.
Event(kind, n) ==
    [kind |-> kind, n |-> n, in_order |-> n = sender_seq,
     gap |-> IF log = <<>> THEN 0 ELSE (sender_seq - log[Len(log)].n - 1) % 256,
     ok |-> state = "Initialized" \/ seq_num = n,
     pre |-> state, pre_len |-> Len(cache)]

Logged(e) == IF log = <<>> THEN <<e>> ELSE <<log[Len(log)], e>>

idleCodec ==
    /\ in_cmd = <<>> /\ in_raw = <<>> /\ in_recs = <<>> /\ out_raw = <<>> /\ out_cmds = <<>> /\ out_len = 0

idleWriter ==
    /\ writer = "none" /\ called_with = <<>>
    /\ sequence_number = 0 /\ old = <<>> /\ new = <<>> /\ wire = <<>>
    /\ fail_at = 0 /\ result = "ok"

idleHandler ==
    /\ state = "Initialized" /\ cache = <<>> /\ seq_num = 0 /\ panicked = ""
    /\ decoded = <<>> /\ sender_seq = 0 /\ nframes = 0 /\ nlost = 0 /\ renumbered = FALSE /\ log = <<>>

\* The device's counter when the handler is created: close to the wrap of the
\* one-byte number.
SenderSeqInit == {254}

\* CommandDspMessageHandler::default(), and a peer about to transmit.  No
\* payload of the library reaches the subtraction overflow_checks governs.
Init ==
    /\ overflow_checks = TRUE
    /\ pc = "created"
    /\ state = "Initialized"
    /\ cache = <<>>
    /\ seq_num = 0
    /\ panicked = ""
    /\ decoded = <<>>
    /\ sender_seq \in SenderSeqInit
    /\ nframes = 0
    /\ nlost = 0
    /\ renumbered = FALSE
    /\ log = <<>>
    /\ idleCodec
    /\ idleWriter

HandlerAt == {"created", "cached", "decoded", "asked"}

\* A notification arrives: the frame is handed to cache_dsp_messages.
Deliver(kind, prefix, n) ==
    /\ pc \in HandlerAt
    /\ panicked = ""
    /\ nframes < MaxFrames
    /\ LET frame == Frame(prefix, n, kind)
           r == cache_dsp_messages(handler, frame)
       IN  IF r.panic
           THEN /\ panicked' = "cache_dsp_messages"
                /\ UNCHANGED <<state, cache, seq_num>>
           ELSE /\ panicked' = panicked
                /\ state' = r.state
                /\ cache' = r.cache
                /\ seq_num' = r.seq_num
    /\ pc' = "cached"
    /\ decoded' = <<>>
    /\ log' = Logged(Event(kind, n))
    /\ renumbered' = (renumbered \/ n # sender_seq)
    /\ sender_seq' = (n + 1) % 256
    /\ nframes' = nframes + 1
    /\ UNCHANGED <<overflow_checks, nlost>>
    /\ UNCHANGED codecVars
    /\ UNCHANGED writerVars

\* The frame the handler accepted last is delivered once more.
Duplicate(prefix) ==
    /\ log # <<>>
    /\ log[Len(log)].ok
    /\ Deliver(log[Len(log)].kind, prefix, log[Len(log)].n)

\* A notification is missed: the frame never reaches the handler.
Lose ==
    /\ pc \in HandlerAt
    /\ panicked = ""
    /\ nlost < MaxLost
    /\ sender_seq' = (sender_seq + 1) % 256
    /\ nlost' = nlost + 1
    /\ UNCHANGED <<overflow_checks, pc, state, cache, seq_num, panicked, decoded,
                   nframes, renumbered, log>>
    /\ UNCHANGED codecVars
    /\ UNCHANGED writerVars

\* The handler after decode_messages() returned r or panicked.
Decoded(r) ==
    IF r.panic
    THEN /\ panicked' = "decode_messages"
         /\ UNCHANGED <<cache, decoded>>
    ELSE /\ panicked' = panicked
         /\ cache' = r.cache
         /\ decoded' = r.cmds

\* The caller invokes decode_messages().
Decode ==
    /\ pc \in HandlerAt
    /\ panicked = ""
    /\ Decoded(decode_messages(cache))
    /\ pc' = "decoded"
    /\ UNCHANGED <<overflow_checks, state, seq_num, sender_seq, nframes, nlost,
                   renumbered, log>>
    /\ UNCHANGED codecVars
    /\ UNCHANGED writerVars

\* The caller invokes has_dsp_message(); `result` keeps the answer.
HasDspMessage ==
    /\ pc \in HandlerAt
    /\ panicked = ""
    /\ result' = IF has_dsp_message(handler) THEN "true" ELSE "false"
    /\ pc' = "asked"
    /\ UNCHANGED <<overflow_checks, state, cache, seq_num, panicked, decoded,
                   sender_seq, nframes, nlost, renumbered, log>>
    /\ UNCHANGED codecVars
    /\ UNCHANGED <<writer, called_with, sequence_number, old, new, wire, fail_at>>

Next ==
    \/ \E kind \in FrameKinds, prefix \in {0, 1, 2}, n \in SeqChoices : Deliver(kind, prefix, n)
    \/ \E prefix \in {0, 1, 2} : Duplicate(prefix)
    \/ Lose
    \/ Decode
    \/ HasDspMessage

Spec == Init /\ [][Next]_vars

TypeOK ==
    /\ state \in {"Initialized", "Prepared", "InTruncatedMessage"}
    /\ seq_num \in 0..255
    /\ Len(Payload.head) = 246 /\ Len(Payload.unknown) = 246
    /\ (Len(Payload.tail) + 2) % 4 = 0
    /\ decode_messages(ShortStream).cmds = ShortStreamCmds
    /\ decode_messages(LongStream).cmds = LongStreamCmds
---------------------------------------------------------------------------
(* Reception: properties of the reassembler.                               *)

last == log[Len(log)]
prev == log[1]

FullFrame(kind) == Len(Payload[kind]) + 2 = MAXIMUM_DSP_FRAME_SIZE
NonNullHead(kind) == Payload[kind][1] # 0

\* Tags that open a record.
RecordTags ==
    {CMD_RESOURCE, CMD_BYTE_MULTIPLE, CMD_QUADLET_MULTIPLE, CMD_DRAIN,
     CMD_BYTE_SINGLE, CMD_QUADLET_SINGLE}

\* Every record of buf, up to the first byte that opens none, lies within buf.
RECURSIVE RecordsComplete(_)
RecordsComplete(buf) ==
    IF buf = <<>> THEN TRUE
    ELSE IF buf[1] \notin RecordTags THEN TRUE
    ELSE IF Len(buf) < 2 THEN buf[1] = CMD_DRAIN
    ELSE /\ padding_record_length(buf) <= Len(buf)
         /\ RecordsComplete(Drop(buf, padding_record_length(buf)))

\* The handler, fresh or Prepared, has just taken a full-sized frame whose
\* payload starts with a non-null byte.
TookFullFrame ==
    /\ pc = "cached" /\ log # <<>>
    /\ last.ok /\ last.pre \in {"Initialized", "Prepared"}
    /\ FullFrame(last.kind) /\ NonNullHead(last.kind)

\* ... and, the frame before being such a full-sized frame, a shorter one.
TookFullThenShorter ==
    /\ Len(log) = 2
    /\ prev.ok /\ prev.pre \in {"Initialized", "Prepared"}
    /\ FullFrame(prev.kind) /\ NonNullHead(prev.kind)
    /\ last.ok /\ ~FullFrame(last.kind)

\* What decoding the payloads of two frames as one stream returns, and whether
\* the records of the two payloads taken together are complete.
DecodedAsOne ==
    [k1 \in FrameKinds |-> [k2 \in FrameKinds |->
        decode_messages(Payload[k1] \o Payload[k2]).cmds]]
CompleteAsOne ==
    [k1 \in FrameKinds |-> [k2 \in FrameKinds |->
        RecordsComplete(Payload[k1] \o Payload[k2])]]

Desynced(e) == e.pre = "InTruncatedMessage" /\ e.pre_len > 0 /\ ~e.ok

\* C2: desync recovery.  A frame with an unexpected sequence number that
\* arrives while a partial stream is buffered clears the buffer; the next
\* frame, bearing the expected number and a complete command stream, starts a
\* fresh stream, and decode_messages() returns exactly that stream's commands.
C2_DesyncRecovery ==
    /\ (pc = "cached" /\ log # <<>> /\ Desynced(last)) =>
          cache = <<>> /\ state = "Prepared" /\ panicked = ""
    /\ (Len(log) = 2 /\ Desynced(prev) /\ last.ok /\ last.kind = "short") =>
          /\ pc = "cached" =>
                /\ panicked = ""
                /\ has_dsp_message(handler)
                /\ cache = ShortStream
                /\ ~decode_messages(cache).panic
                /\ decode_messages(cache).cmds = ShortStreamCmds
          /\ (pc = "decoded" /\ decoded # <<>>) =>
                panicked = "" /\ decoded = ShortStreamCmds

\* After a desync the short stream arrived and was decoded.
C2_Witness ==
    /\ Len(log) = 2 /\ Desynced(prev) /\ last.ok /\ last.kind = "short"
    /\ pc = "decoded" /\ decoded = ShortStreamCmds

\* The sender numbered every frame consecutively, one frame was missed right
\* before the frame before the last, which the handler found out of sequence.
OneFrameMissed ==
    /\ pc = "cached" /\ Len(log) = 2
    /\ ~renumbered /\ nlost = 1
    /\ prev.gap = 1 /\ ~prev.ok
    /\ last.gap = 0

\* C3: recovery from a missed notification.  When the sender numbers its
\* frames consecutively and exactly one frame is missed, the handler resets on
\* the first out-of-sequence frame without an error, and the frame that
\* follows in the sender's order is accepted and buffered.
C3_RecoversFromMissedFrame ==
    OneFrameMissed =>
         /\ panicked = ""
         /\ last.ok
         /\ last.kind = "short" => has_dsp_message(handler)

\* C4: decode_messages() never panics, whatever the buffer holds.
C4_DecodeNeverPanics == panicked # "decode_messages"
---------------------------------------------------------------------------
(* The codec on its own: DspCmd::build, DspCmd::parse and remove_padding   *)
(* applied to commands, records and buffers drawn from sample sets.        *)

ChSamples == {0, 255}                  \* channel indices
SrcSamples == {0, 1, 253, 254, 255}    \* mixer source indices
MaxRecords == 2                        \* records in a buffer
MaxPad == 5                            \* padding bytes after the records

F32Samples ==
    { <<"f32", 0, 0, 0>>,              \*  0.0
      <<"f32", 1, 0, 0>>,              \* -0.0
      <<"f32", 0, 127, 0>>,            \*  1.0
      <<"f32", 1, 126, 4194304>> }     \* -0.75

\* Values of each type that the conversions carry without loss.
ValueSamples(ty) ==
    CASE ty = "bool" -> {<<"bool", 0>>, <<"bool", 1>>}
      [] ty = "usize" -> {<<"usize", v>> : v \in {0, 1, 255}}
      [] ty = "i32" -> {<<"i32", v>> : v \in {-96, 0, 6, 16777216}}
      [] ty = "u32" -> {<<"u32", v>> : v \in {0, 48000}}
      [] ty = "f32" -> F32Samples
      [] ty = "focus" -> {<<"focus", k, 0, c>> : k \in {0, 1}, c \in {0, 5}}
      [] OTHER -> {<<ty, 0, v>> : v \in 0..(EnumCount[ty] - 1)}
                     \cup {<<ty, 1, v>> : v \in {EnumCount[ty], 255}}

ParseTable ==
    [ Monitor |-> MonitorCmd_parse_table, Input |-> InputCmd_parse_table,
      Mixer |-> MixerCmd_parse_table, Output |-> OutputCmd_parse_table,
      Reverb |-> ReverbCmd_parse_table ]

BuildTable ==
    [ Monitor |-> MonitorCmd_build_table, Input |-> InputCmd_build_table,
      Mixer |-> MixerCmd_build_table, Output |-> OutputCmd_build_table,
      Reverb |-> ReverbCmd_build_table ]

\* The commands of the documented variants over the sample values.
DomainCmdSamples(dom) ==
    UNION { { MkCmd(dom, ParseTable[dom][i][3], ch, src, val) :
                ch \in (IF dom \in {"Monitor", "Reverb"} THEN {0} ELSE ChSamples),
                src \in (IF ParseTable[dom][i][1] = -1 THEN SrcSamples ELSE {0}),
                val \in ValueSamples(ParseTable[dom][i][4]) } :
            i \in DOMAIN ParseTable[dom] }

ResourceCmdSamples ==
    { [dom |-> "Resource", name |-> "Usage", ch |-> flag, src |-> 0, id |-> <<>>,
       val |-> usage] : flag \in {0, 255}, usage \in F32Samples }

CmdSamples == (UNION {DomainCmdSamples(dom) : dom \in Domains}) \cup ResourceCmdSamples

\* The appender of a documented command, "resource" for the resource report.
AppenderOf(cmd) ==
    IF cmd.dom = "Resource" THEN "resource"
    ELSE LET t == BuildTable[cmd.dom] IN
         t[CHOOSE i \in DOMAIN t : t[i][1] = cmd.name][2]

\* Single-value records over sample identifiers and values.
ByteSingle(v, id) == <<CMD_BYTE_SINGLE, v>> \o id
QuadletSingle(q, id) == <<CMD_QUADLET_SINGLE>> \o id \o q

IdSamples ==
    { <<ch, l3, l2, dom>> : ch \in {0, 3}, l3 \in {0, 1, 3, 4, 7, 200},
                            l2 \in {0, 1, 2, 9, 255}, dom \in {0, 1, 2, 3, 4, 5, 255} }

RecordSamples ==
    { ByteSingle(v, id) : v \in {0, 1, 200}, id \in IdSamples }
        \cup { QuadletSingle(q, id) : q \in {<<0, 0, 128, 63>>, <<1, 2, 3, 4>>},
                                      id \in IdSamples }

\* Records of every type, and the buffers made of them and of zero padding.
R_Widths == <<70, 1, 0, 13, 0, 1, 0, 0, 128, 63>>
R_Usage == <<35, 0, 0, 128, 63, 1>>
R_Drain == <<CMD_DRAIN>>
R_End == <<CMD_END>>

RecordLibrary ==
    {R_Talkback, R_Volume, R_Listenback, R_Widths, R_Usage, R_Drain, R_End}

RECURSIVE RecordLists(_)
RecordLists(n) ==
    IF n = 0 THEN {<<>>}
    ELSE RecordLists(n - 1)
            \cup {Append(l, r) : l \in {x \in RecordLists(n - 1) : Len(x) = n - 1},
                                 r \in RecordLibrary}

\* Slices of a reception buffer as decode_messages hands them to
\* DspCmd::parse: a record of any type, or a byte that is no tag, and the
\* bytes that follow it.
MaxCount == 3

\* The i-th value of a multiple record, one or four bytes wide.
ByteValues(n, base) == [i \in 1..n |-> (base + i - 1) % 256]
QuadletValues(n, base) == Flatten([i \in 1..n |-> <<(base + i - 1) % 256, 0, 128, 63>>])

ByteMultiple(n, id, base) == <<CMD_BYTE_MULTIPLE, n>> \o id \o ByteValues(n, base)
QuadletMultiple(n, id, base) == <<CMD_QUADLET_MULTIPLE, n>> \o id \o QuadletValues(n, base)

MultipleSamples ==
    { ByteMultiple(n, id, base) : n \in 0..MaxCount, id \in IdSamples, base \in {0, 1} }
        \cup { QuadletMultiple(n, id, 0) : n \in 0..MaxCount, id \in IdSamples }

\* The last record of the reference data of message_decode_test.
R_Pair == <<70, 2, 0, 5, 0, 1, 0, 0, 0, 0, 0, 0, 0, 0>>
\* The same record with the values 1.0 and 2.0.
R_PairWide == <<70, 2, 0, 5, 0, 1, 0, 0, 128, 63, 0, 0, 0, 64>>

\* Bytes that are no tag of a record.
UnknownTags == {0, 1, 34, 36, 99, 255}

Trailers == {<<>>, R_Talkback, <<0, 0>>}

SliceSamples ==
    { r \o t : r \in MultipleSamples, t \in {<<>>, R_Talkback} }
        \cup { r \o t : r \in RecordLibrary \cup {R_Pair, R_PairWide, R_Gain}, t \in Trailers }
        \cup { <<b>> \o t : b \in UnknownTags, t \in Trailers }

InitCodec ==
    /\ overflow_checks \in BOOLEAN
    /\ idleHandler
    /\ idleWriter
    /\ out_raw = <<>> /\ out_cmds = <<>> /\ out_len = 0
    /\ \/ /\ pc = "command"
          /\ in_cmd \in CmdSamples
          /\ in_raw = <<>> /\ in_recs = <<>>
       \/ /\ pc = "record"
          /\ in_raw \in RecordSamples
          /\ in_cmd = <<>> /\ in_recs = <<>>
       \/ /\ pc = "slice"
          /\ in_raw \in SliceSamples
          /\ in_cmd = <<>> /\ in_recs = <<>>
       \/ /\ pc = "buffer"
          /\ in_recs \in (RecordLists(MaxRecords) \ {<<>>})
          /\ \E k \in 0..MaxPad : in_raw = Flatten(in_recs) \o Repeat(<<0>>, k)
          /\ in_cmd = <<>>

\* cmd.build(&mut raw)
Build ==
    /\ pc = "command"
    /\ out_raw' = DspCmd_build(in_cmd)
    /\ pc' = "built"
    /\ UNCHANGED <<overflow_checks, in_cmd, in_raw, in_recs, out_cmds, out_len>>
    /\ UNCHANGED handlerVars
    /\ UNCHANGED writerVars

\* DspCmd::parse(&raw, &mut cmds) on the bytes just built
Reparse ==
    /\ pc = "built"
    /\ LET r == DspCmd_parse(out_raw) IN
          /\ out_cmds' = r.cmds
          /\ out_len' = r.consumed
          /\ panicked' = IF r.panic THEN "DspCmd::parse" ELSE panicked
    /\ pc' = "reparsed"
    /\ UNCHANGED <<overflow_checks, in_cmd, in_raw, in_recs, out_raw>>
    /\ UNCHANGED <<state, cache, seq_num, decoded, sender_seq, nframes, nlost,
                   renumbered, log>>
    /\ UNCHANGED writerVars

\* DspCmd::parse(&raw, &mut cmds) on a record, or on a slice of a buffer
Parse ==
    /\ pc \in {"record", "slice"}
    /\ LET r == DspCmd_parse(in_raw) IN
          /\ out_cmds' = r.cmds
          /\ out_len' = r.consumed
          /\ panicked' = IF r.panic THEN "DspCmd::parse" ELSE panicked
    /\ pc' = IF pc = "record" THEN "parsed" ELSE "consumed"
    /\ UNCHANGED <<overflow_checks, in_cmd, in_raw, in_recs, out_raw>>
    /\ UNCHANGED <<state, cache, seq_num, decoded, sender_seq, nframes, nlost,
                   renumbered, log>>
    /\ UNCHANGED writerVars

\* cmd.build(&mut raw) on every command just parsed
Rebuild ==
    /\ pc = "parsed"
    /\ panicked = ""
    /\ out_raw' = build_all(out_cmds)
    /\ pc' = "rebuilt"
    /\ UNCHANGED <<overflow_checks, in_cmd, in_raw, in_recs, out_cmds, out_len>>
    /\ UNCHANGED handlerVars
    /\ UNCHANGED writerVars

\* remove_padding(&mut cache)
RemovePadding ==
    /\ pc = "buffer"
    /\ LET r == remove_padding(in_raw) IN
          /\ out_raw' = r.cache
          /\ panicked' = IF r.panic THEN "remove_padding" ELSE panicked
    /\ pc' = "stripped"
    /\ UNCHANGED <<overflow_checks, in_cmd, in_raw, in_recs, out_cmds, out_len>>
    /\ UNCHANGED <<state, cache, seq_num, decoded, sender_seq, nframes, nlost,
                   renumbered, log>>
    /\ UNCHANGED writerVars

NextCodec == Build \/ Reparse \/ Parse \/ Rebuild \/ RemovePadding

SpecCodec == InitCodec /\ [][NextCodec]_vars
---------------------------------------------------------------------------
(* The codec: properties.                                                  *)

DomainOf(first_level) == <<"Monitor", "Input", "Mixer", "Output", "Reverb">>[first_level + 1]

\* Some documented command is built with this identifier: the mixer source
\* arms put the source index plus 2 at the second level.
Mapped(first_level, second_level, third_level) ==
    /\ first_level <= 4
    /\ LET t == BuildTable[DomainOf(first_level)] IN
       \E i \in DOMAIN t :
          /\ t[i][4] = third_level
          /\ \/ t[i][3] = second_level
             \/ t[i][3] = -1 /\ second_level >= 2

\* Identifier and value bytes of a single-value record.
IdentifierOf(raw) ==
    IF raw[1] = CMD_BYTE_SINGLE THEN Slice(raw, 2, 6) ELSE Slice(raw, 1, 5)
ValueOf(raw) ==
    IF raw[1] = CMD_BYTE_SINGLE THEN Slice(raw, 1, 2) ELSE Slice(raw, 5, 9)

NamesNoParameter(raw) ==
    LET id == IdentifierOf(raw) IN ~Mapped(id[4], id[3], id[2])

\* The Reserved variant that carries the record unchanged.
ReservedFor(raw) ==
    IF IdentifierOf(raw)[4] > 4 THEN MkReserved(raw)
    ELSE MkDomainReserved(DomainOf(IdentifierOf(raw)[4]), IdentifierOf(raw), ValueOf(raw))

\* C5: a single-value record whose identifier names no modelled parameter
\* (domain above 0x04, or an unmapped (level2, level3) pair of a domain
\* 0x00..0x04, the mixer included) parses, without an error, to the Reserved
\* variant that carries its identifier and value bytes, and build() of that
\* variant reproduces the record.
C5_UnknownPreserved ==
    (pc \in {"parsed", "rebuilt"} /\ NamesNoParameter(in_raw)) =>
        /\ panicked = ""
        /\ out_len = Len(in_raw)
        /\ out_cmds = <<ReservedFor(in_raw)>>
        /\ pc = "rebuilt" => out_raw = in_raw

\* The encoded length the record layouts give a command.
EncodedLength(cmd) ==
    IF AppenderOf(cmd) = "u8" THEN CMD_BYTE_SINGLE_LENGTH
    ELSE IF AppenderOf(cmd) = "resource" THEN CMD_RESOURCE_LENGTH
    ELSE CMD_QUADLET_SINGLE_LENGTH

RoundTrips ==
    /\ panicked = ""
    /\ out_cmds = <<in_cmd>>
    /\ out_len = Len(out_raw)
    /\ out_len = EncodedLength(in_cmd)

\* C6 as stated: every command of a documented variant with an in-range value
\* and indices below 256 round-trips.
C6_AsStated ==
    (pc = "reparsed" /\ in_cmd.ch < 256 /\ in_cmd.src < 256) => RoundTrips

\* C6: round trip.  For every command of a documented variant with an
\* in-range value, a channel index below 256 and a mixer source index below
\* 254, DspCmd::parse on the bytes of build() appends exactly that command
\* and returns the encoded length: 6 for a byte value, 9 for a quadlet value,
\* 6 for the resource report.
C6_RoundTrip ==
    (pc = "reparsed" /\ in_cmd.ch < 256 /\ in_cmd.src < 254) => RoundTrips

\* A mixer source command with the largest indices that round-trip did so.
C6_Witness ==
    /\ pc = "reparsed"
    /\ in_cmd.name = "SourceGain" /\ in_cmd.ch = 255 /\ in_cmd.src = 253
    /\ in_cmd.val = <<"f32", 1, 126, 4194304>>
    /\ out_cmds = <<in_cmd>> /\ out_len = 9

\* in_raw is in_recs followed by zero bytes only.
RecordsThenPadding ==
    /\ in_recs # <<>>
    /\ \E k \in 0..Len(in_raw) : in_raw = Flatten(in_recs) \o Repeat(<<0>>, k)

HasEnd(recs) == \E i \in DOMAIN recs : recs[i] = R_End

RECURSIVE KeptRecords(_, _)
KeptRecords(recs, remaining) ==
    IF recs = <<>> THEN <<>>
    ELSE IF Head(recs) = R_End THEN <<>>
    ELSE IF Head(recs) = R_Drain /\ remaining <= 4 THEN <<>>
    ELSE <<Head(recs)>> \o KeptRecords(Tail(recs), remaining - Len(Head(recs)))

---------------------------------------------------------------------------
(* State blocks and their command lists.  A state block is a function from *)
(* slots <<field, i, j>> to values: <<"gain", ch, 0>> stands for           *)
(* state.gain[ch], <<"source.mute", mixer, ch>> for                        *)
(* state.source[mixer].mute[ch], <<"enable", 0, 0>> for state.enable.  The *)
(* vectors hold an element for every channel the device declares.          *)

\* create_reverb_command: <<variant, field, index>>, index -1 for a scalar field
ReverbFields ==
  <<
    <<"Enable", "enable", -1>>,
    <<"Split", "split_point", -1>>,
    <<"PreDelay", "pre_delay", -1>>,
    <<"ShelfFilterFreq", "shelf_filter_freq", -1>>,
    <<"ShelfFilterAttenuation", "shelf_filter_attenuation", -1>>,
    <<"DecayTime", "decay_time", -1>>,
    <<"LowFreqTime", "freq_time", 0>>,
    <<"MiddleFreqTime", "freq_time", 1>>,
    <<"HighFreqTime", "freq_time", 2>>,
    <<"LowFreqCrossover", "freq_crossover", 0>>,
    <<"HighFreqCrossover", "freq_crossover", 1>>,
    <<"Width", "width", -1>>,
    <<"ReflectionMode", "reflection_mode", -1>>,
    <<"ReflectionSize", "reflection_size", -1>>,
    <<"ReflectionLevel", "reflection_level", -1>>
  >>

\* create_monitor_commands: <<variant, field>>
MonitorFields ==
  <<
    <<"Volume", "main_volume">>,
    <<"TalkbackEnable", "talkback_enable">>,
    <<"ListenbackEnable", "listenback_enable">>,
    <<"TalkbackVolume", "talkback_volume">>,
    <<"ListenbackVolume", "listenback_volume">>,
    <<"Focus", "focus">>,
    <<"ReturnAssign", "assign_target">>
  >>

\* create_mixer_commands, per mixer: <<variant, field>>
MixerOutputFields ==
  <<
    <<"OutputAssign", "output_assign">>,
    <<"OutputMute", "output_mute">>,
    <<"OutputVolume", "output_volume">>,
    <<"ReverbSend", "reverb_send">>,
    <<"ReverbReturn", "reverb_return">>
  >>

\* create_mixer_commands, per mixer and source: <<variant, field>>
MixerSourceFields ==
  <<
    <<"SourceMute", "source.mute">>,
    <<"SourceSolo", "source.solo">>,
    <<"SourceGain", "source.gain">>,
    <<"SourceMonauralLrBalance", "source.pan">>,
    <<"SourceStereoMode", "source.stereo_mode">>,
    <<"SourceStereoLrBalance", "source.stereo_balance">>,
    <<"SourceStereoWidth", "source.stereo_width">>
  >>

\* create_equalizer_parameters: <<variant, field>>
EqualizerFields ==
  <<
    <<"Equalizer_Enable", "equalizer.enable">>,
    <<"Equalizer_HpfEnable", "equalizer.hpf_enable">>,
    <<"Equalizer_HpfSlope", "equalizer.hpf_slope">>,
    <<"Equalizer_HpfFreq", "equalizer.hpf_freq">>,
    <<"Equalizer_LpfEnable", "equalizer.lpf_enable">>,
    <<"Equalizer_LpfSlope", "equalizer.lpf_slope">>,
    <<"Equalizer_LpfFreq", "equalizer.lpf_freq">>,
    <<"Equalizer_LfEnable", "equalizer.lf_enable">>,
    <<"Equalizer_LfType", "equalizer.lf_type">>,
    <<"Equalizer_LfFreq", "equalizer.lf_freq">>,
    <<"Equalizer_LfGain", "equalizer.lf_gain">>,
    <<"Equalizer_LfWidth", "equalizer.lf_width">>,
    <<"Equalizer_LmfEnable", "equalizer.lmf_enable">>,
    <<"Equalizer_LmfType", "equalizer.lmf_type">>,
    <<"Equalizer_LmfFreq", "equalizer.lmf_freq">>,
    <<"Equalizer_LmfGain", "equalizer.lmf_gain">>,
    <<"Equalizer_LmfWidth", "equalizer.lmf_width">>,
    <<"Equalizer_MfEnable", "equalizer.mf_enable">>,
    <<"Equalizer_MfType", "equalizer.mf_type">>,
    <<"Equalizer_MfFreq", "equalizer.mf_freq">>,
    <<"Equalizer_MfGain", "equalizer.mf_gain">>,
    <<"Equalizer_MfWidth", "equalizer.mf_width">>,
    <<"Equalizer_HmfEnable", "equalizer.hmf_enable">>,
    <<"Equalizer_HmfType", "equalizer.hmf_type">>,
    <<"Equalizer_HmfFreq", "equalizer.hmf_freq">>,
    <<"Equalizer_HmfGain", "equalizer.hmf_gain">>,
    <<"Equalizer_HmfWidth", "equalizer.hmf_width">>,
    <<"Equalizer_HfEnable", "equalizer.hf_enable">>,
    <<"Equalizer_HfType", "equalizer.hf_type">>,
    <<"Equalizer_HfFreq", "equalizer.hf_freq">>,
    <<"Equalizer_HfGain", "equalizer.hf_gain">>,
    <<"Equalizer_HfWidth", "equalizer.hf_width">>
  >>

\* create_dynamics_parameters: <<variant, field>>
DynamicsFields ==
  <<
    <<"Dynamics_Enable", "dynamics.enable">>,
    <<"Dynamics_CompEnable", "dynamics.comp_enable">>,
    <<"Dynamics_CompDetectMode", "dynamics.comp_detect_mode">>,
    <<"Dynamics_CompThreshold", "dynamics.comp_threshold">>,
    <<"Dynamics_CompRatio", "dynamics.comp_ratio">>,
    <<"Dynamics_CompAttack", "dynamics.comp_attack">>,
    <<"Dynamics_CompRelease", "dynamics.comp_release">>,
    <<"Dynamics_CompGain", "dynamics.comp_gain">>,
    <<"Dynamics_LevelerEnable", "dynamics.leveler_enable">>,
    <<"Dynamics_LevelerMode", "dynamics.leveler_mode">>,
    <<"Dynamics_LevelerMakeup", "dynamics.leveler_makeup">>,
    <<"Dynamics_LevelerReduce", "dynamics.leveler_reduce">>
  >>

\* create_input_commands, per input before the equalizer: <<variant, field>>
InputHeadFields ==
  <<
    <<"Phase", "phase">>,
    <<"Pair", "pair">>,
    <<"Gain", "gain">>,
    <<"Swap", "swap">>,
    <<"StereoMode", "stereo_mode">>,
    <<"Width", "width">>
  >>

\* create_input_commands, per input after the dynamics: <<variant, field>>
InputTailFields ==
  <<
    <<"ReverbSend", "reverb_send">>,
    <<"ReverbLrBalance", "reverb_balance">>
  >>

\* create_input_commands, per microphone: <<variant, field>>
InputMicFields ==
  <<
    <<"Pad", "pad">>,
    <<"Phantom", "phantom">>,
    <<"Limitter", "limitter">>,
    <<"Lookahead", "lookahead">>,
    <<"Softclip", "soft_clip">>
  >>

\* create_output_commands, per output after the dynamics: <<variant, field>>
OutputTailFields ==
  <<
    <<"ReverbSend", "reverb_send">>,
    <<"ReverbReturn", "reverb_return">>,
    <<"MasterMonitor", "master_monitor">>,
    <<"MasterTalkback", "master_talkback">>,
    <<"MasterListenback", "master_listenback">>
  >>


InputCount == 1       \* Self::INPUT_PORTS.len()
MicCount == 1         \* Self::MIC_COUNT
SourceCount == 1      \* Self::SOURCE_PORTS.len()
OutputCount == 1      \* Self::OUTPUT_PORTS.len()
ReturnTargetCount == 2

\* Some of the TargetPort variants, and the port lists of the device.
TargetPorts == <<"MainPair0", "PhonePair0", "AnalogPair0", "AnalogPair1">>
OUTPUT_PORTS == SubSeq(TargetPorts, 1, OutputCount)
RETURN_ASSIGN_TARGETS == SubSeq(TargetPorts, 1, ReturnTargetCount)

\* ports.iter().position(|p| target.eq(p)).unwrap_or_default()
position(ports, target) ==
    IF \E i \in DOMAIN ports : ports[i] = target
    THEN Min({i \in DOMAIN ports : ports[i] = target}) - 1
    ELSE 0

\* fn create_reverb_command
create_reverb_command(st) ==
    [i \in DOMAIN ReverbFields |->
        LET row == ReverbFields[i] IN
        MkCmd("Reverb", row[1], 0, 0,
              st[<<row[2], IF row[3] = -1 THEN 0 ELSE row[3], 0>>])]

\* fn create_monitor_commands
create_monitor_commands(st, target_ports) ==
    LET pos == position(target_ports, st[<<"assign_target", 0, 0>>]) IN
    [i \in DOMAIN MonitorFields |->
        LET row == MonitorFields[i] IN
        MkCmd("Monitor", row[1], 0, 0,
              IF row[1] = "ReturnAssign" THEN <<"usize", pos>> ELSE st[<<row[2], 0, 0>>])]

\* fn create_mixer_commands
create_mixer_commands(st, source_count, output_ports) ==
    Flatten([m \in 1..MIXER_COUNT |->
        LET mixer == m - 1
            pos == position(output_ports, st[<<"output_assign", mixer, 0>>])
        IN  [i \in DOMAIN MixerOutputFields |->
                LET row == MixerOutputFields[i] IN
                MkCmd("Mixer", row[1], mixer, 0,
                      IF row[1] = "OutputAssign" THEN <<"usize", pos>>
                      ELSE st[<<row[2], mixer, 0>>])]
            \o Flatten([c \in 1..source_count |->
                    [i \in DOMAIN MixerSourceFields |->
                        LET row == MixerSourceFields[i] IN
                        MkCmd("Mixer", row[1], mixer, c - 1, st[<<row[2], mixer, c - 1>>])]])])

\* The commands of one channel for a run of pushes cmds.push(X(ch, state.f[ch])).
channel_commands(dom, rows, st, ch) ==
    [i \in DOMAIN rows |-> MkCmd(dom, rows[i][1], ch, 0, st[<<rows[i][2], ch, 0>>])]

\* fn create_equalizer_parameters, wrapped in XCmd::Equalizer(ch, param)
create_equalizer_parameters(dom, st, ch) == channel_commands(dom, EqualizerFields, st, ch)

\* fn create_dynamics_parameters, wrapped in XCmd::Dynamics(ch, param)
create_dynamics_parameters(dom, st, ch) == channel_commands(dom, DynamicsFields, st, ch)

\* fn create_input_commands
create_input_commands(st, input_count, mic_count) ==
    Flatten([c \in 1..input_count |->
                channel_commands("Input", InputHeadFields, st, c - 1)
                    \o create_equalizer_parameters("Input", st, c - 1)
                    \o create_dynamics_parameters("Input", st, c - 1)
                    \o channel_commands("Input", InputTailFields, st, c - 1)])
        \o Flatten([c \in 1..mic_count |->
                channel_commands("Input", InputMicFields, st, c - 1)])

\* fn create_output_commands
create_output_commands(st, output_count) ==
    Flatten([c \in 1..output_count |->
                create_equalizer_parameters("Output", st, c - 1)
                    \o create_dynamics_parameters("Output", st, c - 1)
                    \o channel_commands("Output", OutputTailFields, st, c - 1)])

\* PartialEq of the command values: f32 by f32::eq, everything else by value.
value_eq(a, b) ==
    IF a[1] = "f32" /\ b[1] = "f32" THEN f32_eq(a, b) ELSE a = b

\* #[derive(PartialEq)] on DspCmd with the values left out of the comparison.
DspCmd_eq_ignoring_value(a, b) ==
    /\ a.dom = b.dom /\ a.name = b.name /\ a.ch = b.ch /\ a.src = b.src
    /\ a.id = b.id

\* #[derive(PartialEq)] on DspCmd
DspCmd_eq(a, b) ==
    /\ a.dom = b.dom /\ a.name = b.name /\ a.ch = b.ch /\ a.src = b.src
    /\ a.id = b.id
    /\ value_eq(a.val, b.val)

\* A retain whose closure keeps every command.
retain_every(new_cmds, old_cmds) == new_cmds

\* new_cmds.retain(|cmd| old_cmds.iter().find(|c| c.eq(&cmd)).is_none())
retain_changed(new_cmds, old_cmds) ==
    LET absent(cmd) == \A i \in DOMAIN old_cmds : ~DspCmd_eq(old_cmds[i], cmd)
    IN  SelectSeq(new_cmds, absent)

---------------------------------------------------------------------------
(* Transmission.                                                           *)

\* A framer that writes the header and the payload without aligning the frame.
RECURSIVE send_loop_unpadded(_, _, _, _, _, _)
send_loop_unpadded(tag, seq, msg, sent, k, failing) ==
    IF Len(msg) = 0
    THEN [result |-> "ok", panic |-> FALSE, sequence_number |-> seq, wire |-> sent]
    ELSE LET length == IF Len(msg) < MAXIMUM_DSP_FRAME_SIZE - 2
                       THEN Len(msg) ELSE MAXIMUM_DSP_FRAME_SIZE - 2
             frame == <<tag, seq>> \o Slice(msg, 0, length)
         IN  IF k = failing
             THEN [result |-> "err", panic |-> FALSE, sequence_number |-> seq,
                   wire |-> sent]
             ELSE IF seq = U8_MAX /\ overflow_checks
             THEN [result |-> "ok", panic |-> TRUE, sequence_number |-> seq,
                   wire |-> Append(sent, frame)]
             ELSE send_loop_unpadded(tag, ((seq + 1) % 256) % 255, Drop(msg, length),
                                     Append(sent, frame), k + 1, failing)

\* A framer whose frames carry two bytes less than the frame size allows.
RECURSIVE send_loop_narrow(_, _, _, _, _, _)
send_loop_narrow(tag, seq, msg, sent, k, failing) ==
    IF Len(msg) = 0
    THEN [result |-> "ok", panic |-> FALSE, sequence_number |-> seq, wire |-> sent]
    ELSE LET length == IF Len(msg) < MAXIMUM_DSP_FRAME_SIZE - 4
                       THEN Len(msg) ELSE MAXIMUM_DSP_FRAME_SIZE - 4
             head == <<tag, seq>> \o Slice(msg, 0, length)
             frame == head \o Repeat(<<0>>, (4 - (Len(head) % 4)) % 4)
         IN  IF k = failing
             THEN [result |-> "err", panic |-> FALSE, sequence_number |-> seq,
                   wire |-> sent]
             ELSE IF seq = U8_MAX /\ overflow_checks
             THEN [result |-> "ok", panic |-> TRUE, sequence_number |-> seq,
                   wire |-> Append(sent, frame)]
             ELSE send_loop_narrow(tag, ((seq + 1) % 256) % 255, Drop(msg, length),
                                   Append(sent, frame), k + 1, failing)

\* One round of the loop of send_message on the rest of the message; k counts
\* the bus transactions of the call.  [result, panic, sequence_number, wire]
RECURSIVE send_loop(_, _, _, _, _, _)
send_loop(tag, seq, msg, sent, k, failing) ==
    IF Len(msg) = 0
    THEN [result |-> "ok", panic |-> FALSE, sequence_number |-> seq, wire |-> sent]
    ELSE LET length == IF Len(msg) < MAXIMUM_DSP_FRAME_SIZE - 2
                       THEN Len(msg) ELSE MAXIMUM_DSP_FRAME_SIZE - 2
             head == <<tag, seq>> \o Slice(msg, 0, length)
             frame == head \o Repeat(<<0>>, (4 - (Len(head) % 4)) % 4)
         IN  IF k = failing
             THEN \* req.transaction_sync(..)? returns the error
                  [result |-> "err", panic |-> FALSE, sequence_number |-> seq,
                   wire |-> sent]
             ELSE IF seq = U8_MAX /\ overflow_checks
             THEN \* *sequence_number += 1 overflows the u8
                  [result |-> "ok", panic |-> TRUE, sequence_number |-> seq,
                   wire |-> Append(sent, frame)]
             ELSE send_loop(tag, ((seq + 1) % 256) % 255, Drop(msg, length),
                            Append(sent, frame), k + 1, failing)

\* A sender that restores the caller's counter when a transaction fails.
send_message_rolling_back(tag, seq, msg, failing) ==
    IF failing \in 1..(Len(msg) + MAXIMUM_DSP_FRAME_SIZE - 3) \div (MAXIMUM_DSP_FRAME_SIZE - 2)
    THEN [send_loop(tag, seq, msg, <<>>, 1, failing) EXCEPT !.sequence_number = seq]
    ELSE send_loop(tag, seq, msg, <<>>, 1, failing)

\* fn send_message, on a bus whose transaction number `failing` fails
send_message(tag, seq, msg, failing) == send_loop(tag, seq, msg, <<>>, 1, failing)

\* CommandDspOperation::send_commands
send_commands(seq, cmds, failing) == send_message(2, seq, build_all(cmds), failing)

\* The second message of begin_messaging, after the first gave r1.
begin_second(r1, failing) ==
    IF r1.panic \/ r1.result = "err" THEN r1
    ELSE [send_message(2, r1.sequence_number, <<0, 0>>, failing - 1)
            EXCEPT !.wire = r1.wire \o @]

\* CommandDspOperation::begin_messaging: two messages of two zero bytes, with
\* tags 0x01 and 0x02; the second is not sent when the first failed.
begin_messaging(seq, failing) ==
    begin_second(send_message(1, seq, <<0, 0>>, failing), failing)

\* CommandDspOperation::cancel_messaging
cancel_messaging(seq, failing) == send_message(0, seq, <<0, 0>>, failing)

\* The command lists of the writers.
Writers == {"reverb", "monitor", "mixer", "input", "output"}

create_commands(w, st) ==
    CASE w = "reverb" -> create_reverb_command(st)
      [] w = "monitor" -> create_monitor_commands(st, RETURN_ASSIGN_TARGETS)
      [] w = "mixer" -> create_mixer_commands(st, SourceCount, OUTPUT_PORTS)
      [] w = "input" -> create_input_commands(st, InputCount, MicCount)
      [] w = "output" -> create_output_commands(st, OutputCount)

\* write_reverb_state, write_monitor_state, write_mixer_state,
\* write_input_state and write_output_state: the commands handed to
\* send_commands.
changed_commands(w, st, old_st) ==
    retain_changed(create_commands(w, st), create_commands(w, old_st))

---------------------------------------------------------------------------
(* The state writers called on sample states over a bus that may fail.     *)

MaxFail == 2          \* the bus transaction that fails is one of the first MaxFail

\* Values of the caller's counter: send_message leaves it below 255, so the
\* increment of the u8 cannot overflow.
SeqSamples == {0, 254}

\* The mixers whose fields the sample states change.
MixerSamples == {0, MIXER_COUNT - 1}

\* The rows <<variant, field, ..>> behind the slots of each writer.
FieldRows(w) ==
    CASE w = "reverb" -> ReverbFields
      [] w = "monitor" -> MonitorFields
      [] w = "mixer" -> MixerOutputFields \o MixerSourceFields
      [] w = "input" -> InputHeadFields \o EqualizerFields \o DynamicsFields
                            \o InputTailFields \o InputMicFields
      [] w = "output" -> EqualizerFields \o DynamicsFields \o OutputTailFields

RowSlots(rows, is, js) ==
    {<<rows[r][2], i, j>> : r \in DOMAIN rows, i \in is, j \in js}

Slots(w) ==
    CASE w = "reverb" ->
            {<<ReverbFields[r][2], IF ReverbFields[r][3] = -1 THEN 0 ELSE ReverbFields[r][3], 0>> :
                r \in DOMAIN ReverbFields}
      [] w = "monitor" -> RowSlots(MonitorFields, {0}, {0})
      [] w = "mixer" ->
            RowSlots(MixerOutputFields, 0..(MIXER_COUNT - 1), {0})
                \cup RowSlots(MixerSourceFields, 0..(MIXER_COUNT - 1), 0..(SourceCount - 1))
      [] w = "input" ->
            RowSlots(InputHeadFields \o EqualizerFields \o DynamicsFields \o InputTailFields,
                     0..(InputCount - 1), {0})
                \cup RowSlots(InputMicFields, 0..(MicCount - 1), {0})
      [] w = "output" ->
            RowSlots(EqualizerFields \o DynamicsFields \o OutputTailFields,
                     0..(OutputCount - 1), {0})

DomainOfWriter ==
    [reverb |-> "Reverb", monitor |-> "Monitor", mixer |-> "Mixer",
     input |-> "Input", output |-> "Output"]

\* The type of the field of a slot; the two TargetPort fields are "port".
SlotType(w, s) ==
    IF s[1] \in {"assign_target", "output_assign"} THEN "port"
    ELSE LET rows == FieldRows(w)
             variant == rows[CHOOSE r \in DOMAIN rows : rows[r][2] = s[1]][1]
             t == ParseTable[DomainOfWriter[w]]
         IN  t[CHOOSE i \in DOMAIN t : t[i][3] = variant][4]

\* Default::default() of each field type
DefaultValue(ty) ==
    CASE ty = "bool" -> <<"bool", 0>>
      [] ty = "i32" -> <<"i32", 0>>
      [] ty = "u32" -> <<"u32", 0>>
      [] ty = "f32" -> <<"f32", 0, 0, 0>>
      [] ty = "focus" -> <<"focus", 0, 0, 0>>
      [] ty = "port" -> "Disabled"
      [] OTHER -> <<ty, 0, 0>>

F32_NaN == <<"f32", 0, 255, 4194304>>
F32_NegZero == <<"f32", 1, 0, 0>>
F32_One == <<"f32", 0, 127, 0>>

\* Other values a field may take; the first is the one AllChanged uses.
OtherValues(ty) ==
    CASE ty = "bool" -> <<<<"bool", 1>>>>
      [] ty = "i32" -> <<<<"i32", 6>>>>
      [] ty = "u32" -> <<<<"u32", 48000>>>>
      [] ty = "f32" -> <<F32_One, F32_NegZero>>
      [] ty = "focus" -> <<<<"focus", 1, 0, 2>>>>
      [] ty = "port" -> <<TargetPorts[2], TargetPorts[1]>>
      [] OTHER -> <<<<ty, 0, 1>>, <<ty, 1, 0>>>>

\* The state block of Default::default() with every vector sized.
BaseState(w) == [s \in Slots(w) |-> DefaultValue(SlotType(w, s))]

\* One slot of floating-point type
FloatSlot(w) == CHOOSE s \in Slots(w) : SlotType(w, s) = "f32"

OldSamples(w) ==
    {BaseState(w), [BaseState(w) EXCEPT ![FloatSlot(w)] = F32_NaN]}

AllChanged(w, st) == [s \in Slots(w) |-> OtherValues(SlotType(w, s))[1]]

\* The slots the sample states change one at a time.
ChangedSlots(w) ==
    IF w = "mixer" THEN {s \in Slots(w) : s[2] \in MixerSamples} ELSE Slots(w)

\* The old state, the old state with one slot changed, and a state that
\* differs in every slot.
NewSamples(w, st) ==
    {st, AllChanged(w, st)}
        \cup UNION { { [st EXCEPT ![s] = OtherValues(SlotType(w, s))[k]] :
                          k \in DOMAIN OtherValues(SlotType(w, s)) } :
                      s \in ChangedSlots(w) }

InitWriter ==
    /\ overflow_checks = TRUE
    /\ pc = "call"
    /\ idleHandler
    /\ idleCodec
    /\ writer \in Writers
    /\ old \in OldSamples(writer)
    /\ new \in NewSamples(writer, old)
    /\ sequence_number \in SeqSamples
    /\ fail_at \in 0..MaxFail
    /\ called_with = [old |-> old, sequence_number |-> sequence_number]
    /\ wire = <<>>
    /\ result = "none"

\* An update of the caller's state that does not look at the result.
overwritten_old(res, st, old_st) == st

\* .map(|_| *old = state) on the result of send_commands
updated_old(res, st, old_st) == IF res = "ok" THEN st ELSE old_st

\* write_X_state(req, node, &mut sequence_number, new, &mut old, timeout_ms)
\* for the writer w: the diff, the transmission, and on Ok(()) *old = state.
WriteState(w) ==
    /\ pc = "call"
    /\ writer = w
    /\ LET new_cmds == changed_commands(w, new, old)
           r == send_commands(sequence_number, new_cmds, fail_at)
       IN  /\ wire' = r.wire
           /\ sequence_number' = r.sequence_number
           /\ IF r.panic
              THEN /\ panicked' = "send_message"
                   /\ UNCHANGED <<old, result>>
              ELSE /\ panicked' = panicked
                   /\ result' = r.result
                   /\ old' = updated_old(r.result, new, old)
    /\ pc' = "returned"
    /\ UNCHANGED <<overflow_checks, writer, called_with, new, fail_at>>
    /\ UNCHANGED <<state, cache, seq_num, decoded, sender_seq, nframes, nlost,
                   renumbered, log>>
    /\ UNCHANGED codecVars

WriteReverbState == WriteState("reverb")
WriteMonitorState == WriteState("monitor")
WriteMixerState == WriteState("mixer")
WriteInputState == WriteState("input")
WriteOutputState == WriteState("output")

NextWriter ==
    \/ WriteReverbState
    \/ WriteMonitorState
    \/ WriteMixerState
    \/ WriteInputState
    \/ WriteOutputState

SpecWriter == InitWriter /\ [][NextWriter]_vars
---------------------------------------------------------------------------
(* The state writers: idempotent push, diff push, update of the old state. *)

\* #[derive(PartialEq)] on the state blocks of writer w
State_eq(w, a, b) ==
    \A s \in Slots(w) :
        IF SlotType(w, s) = "f32" THEN f32_eq(a[s], b[s]) ELSE a[s] = b[s]

\* The state block holds a NaN.
HasNaN(w, st) == \E s \in Slots(w) : SlotType(w, s) = "f32" /\ f32_is_nan(st[s])

\* The bytes of the messages on the wire, frame headers removed.
Transmitted == Flatten([i \in DOMAIN wire |-> Drop(wire[i], 2)])

\* The wire carries exactly the built commands, in order, and the alignment
\* padding of the last frame.
Sends(cmds) ==
    LET msg == build_all(cmds)
    IN  IF msg = <<>>
        THEN wire = <<>>
        ELSE \E pad \in 0..3 : Transmitted = msg \o Repeat(<<0>>, pad)

\* The call changed nothing and reported success.
NoOp ==
    /\ wire = <<>>
    /\ result = "ok"
    /\ sequence_number = called_with.sequence_number

ChangedFields(a, b) == {s \in DOMAIN a : a[s] # b[s]}

\* The commands of the new state whose built representation differs from that
\* of the command at the same place of the old state's list.
BuiltDiffers(w, st, old_st) ==
    LET new_cmds == create_commands(w, st)
        old_cmds == create_commands(w, old_st)
        differs(i) == DspCmd_build(new_cmds[i]) # DspCmd_build(old_cmds[i])
        places == SelectSeq([i \in 1..Len(new_cmds) |-> i], differs)
    IN  [k \in 1..Len(places) |-> new_cmds[places[k]]]

OneFieldChanged == Cardinality(ChangedFields(new, called_with.old)) = 1

\* The changed field went from one named value to another one that compares
\* different: no reserved code of an enumeration, no change of the sign of zero.
PlainChange ==
    \A s \in ChangedFields(new, called_with.old) :
        LET a == called_with.old[s]
            b == new[s]
            ty == SlotType(writer, s)
        IN  CASE ty = "f32" -> ~f32_eq(a, b)
              [] ty \in {"bool", "i32", "u32", "focus", "port"} -> TRUE
              [] OTHER -> a[2] = 0 /\ b[2] = 0

FramesNeeded ==
    LET msg == build_all(changed_commands(writer, new, called_with.old))
    IN  (Len(msg) + MAXIMUM_DSP_FRAME_SIZE - 3) \div (MAXIMUM_DSP_FRAME_SIZE - 2)

\* C10: the writer returns the error exactly when one of the transactions of
\* the push fails; on success the old state is the new state, on error the old
\* state keeps its previous value while the frames before the failed
\* transaction have been sent.
C10_OldUpdatedOnSuccessOnly ==
    pc = "returned" =>
        /\ result \in {"ok", "err"}
        /\ (result = "err") <=> (fail_at \in 1..FramesNeeded)
        /\ result = "ok" => (old = new /\ Len(wire) = FramesNeeded)
        /\ result = "err" => (old = called_with.old /\ Len(wire) = fail_at - 1)

\* The second transaction of a push failed: one frame is on the wire and the
\* old state is not the new one.
C10_Witness ==
    /\ pc = "returned"
    /\ result = "err"
    /\ Len(wire) = 1
    /\ old = called_with.old
    /\ old # new

---------------------------------------------------------------------------
(* A session of the transmission side: the caller owns one sequence        *)
(* counter and calls send_message, send_commands, begin_messaging and      *)
(* cancel_messaging on it, over a bus on which one transaction of a call   *)
(* may fail.  `wire` holds the frames the last call wrote, `called_with`   *)
(* what the call was given.                                                *)

\* Calls per session.
MaxCalls == 3

\* Message lengths around the payload capacity of one and of two frames.
MsgLengths == {0, 1, 2, 3, 245, 246, 247, 492, 493}

\* A message of n bytes, none of them zero.
MsgOf(n) == [i \in 1..n |-> (i % 251) + 1]

\* Command batches: none, one record, and records that fill more than a frame.
BatchSamples == {<<>>, <<C_Talkback>>, ShortStreamCmds, LongStreamCmds}

\* The caller's counter when the session starts.
CounterSamples == {0, 253, 254, U8_MAX}

InitSender ==
    /\ overflow_checks \in BOOLEAN
    /\ pc = "session"
    /\ idleHandler
    /\ idleCodec
    /\ writer = "none" /\ old = <<>> /\ new = <<>>
    /\ sequence_number \in CounterSamples
    /\ fail_at = 0
    /\ called_with = [op |-> "none", tags |-> <<>>, msg |-> <<>>,
                      sequence_number |-> sequence_number, last |-> -1, calls |-> 0]
    /\ wire = <<>>
    /\ result = "none"

\* The number carried by the last frame the session wrote, -1 before the first.
LastSent == IF wire # <<>> THEN wire[Len(wire)][2] ELSE called_with.last

\* One call of the session returned r.
Called(op, tags, msg, failing, r) ==
    /\ pc = "session"
    /\ panicked = ""
    /\ called_with.calls < MaxCalls
    /\ called_with' = [op |-> op, tags |-> tags, msg |-> msg,
                       sequence_number |-> sequence_number, last |-> LastSent,
                       calls |-> called_with.calls + 1]
    /\ fail_at' = failing
    /\ wire' = r.wire
    /\ sequence_number' = r.sequence_number
    /\ panicked' = IF r.panic THEN "send_message" ELSE panicked
    /\ result' = IF r.panic THEN "none" ELSE r.result
    /\ UNCHANGED <<overflow_checks, pc, writer, old, new>>
    /\ UNCHANGED <<state, cache, seq_num, decoded, sender_seq, nframes, nlost,
                   renumbered, log>>
    /\ UNCHANGED codecVars

SendMessage(tag, n, failing) ==
    Called("send_message", <<tag>>, MsgOf(n), failing,
           send_message(tag, sequence_number, MsgOf(n), failing))

SendCommands(cmds, failing) ==
    Called("send_commands", <<2>>, build_all(cmds), failing,
           send_commands(sequence_number, cmds, failing))

BeginMessaging(failing) ==
    Called("begin_messaging", <<1, 2>>, <<0, 0>>, failing,
           begin_messaging(sequence_number, failing))

CancelMessaging(failing) ==
    Called("cancel_messaging", <<0>>, <<0, 0>>, failing,
           cancel_messaging(sequence_number, failing))

NextSender ==
    \/ \E tag \in {0, 1, 2}, n \in MsgLengths, failing \in 0..MaxFail :
          SendMessage(tag, n, failing)
    \/ \E cmds \in BatchSamples, failing \in 0..MaxFail : SendCommands(cmds, failing)
    \/ \E failing \in 0..MaxFail : BeginMessaging(failing)
    \/ \E failing \in 0..MaxFail : CancelMessaging(failing)

SpecSender == InitSender /\ [][NextSender]_vars

---------------------------------------------------------------------------
(* Properties of the transmission side.                                    *)

SenderCalled == called_with.op # "none"

\* Payload capacity of a frame.
FramePayload == MAXIMUM_DSP_FRAME_SIZE - 2

\* Bus transactions the last call needs to complete.
TransactionsNeeded ==
    IF called_with.op = "begin_messaging" THEN 2
    ELSE (Len(called_with.msg) + FramePayload - 1) \div FramePayload

\* The counter after n frames were written, starting from v, without
\* overflow checks.
RECURSIVE Advanced(_, _)
Advanced(v, n) == IF n = 0 THEN v ELSE Advanced(((v + 1) % 256) % 255, n - 1)

\* C11: when the bus write of frame k of a call fails, the call returns the
\* error, exactly the frames 1..k-1 were written (none after k, and no second
\* attempt), and the caller's counter holds the advances of the frames
\* 1..k-1 and none for frame k.
C11_SendFailure ==
    SenderCalled =>
        /\ (panicked = "" /\ fail_at \in 1..TransactionsNeeded) => result = "err"
        /\ result = "err" =>
              /\ fail_at \in 1..TransactionsNeeded
              /\ Len(wire) = fail_at - 1
              /\ sequence_number = Advanced(called_with.sequence_number, fail_at - 1)

\* The second of three frames of a send_message failed.
C11_Witness ==
    /\ called_with.op = "send_message"
    /\ TransactionsNeeded = 3
    /\ fail_at = 2
    /\ result = "err"
    /\ Len(wire) = 1
    /\ sequence_number # called_with.sequence_number

\* The tag, the offset in the message and the payload length of the i-th
\* frame of the last call.
FrameTag(i) ==
    IF called_with.op = "begin_messaging" THEN called_with.tags[i] ELSE called_with.tags[1]

FrameOffset(i) ==
    IF called_with.op = "begin_messaging" THEN 0 ELSE (i - 1) * 246

FrameLength(i) ==
    IF Len(called_with.msg) - FrameOffset(i) < 246
    THEN Len(called_with.msg) - FrameOffset(i) ELSE 246

\* C12: every frame written starts with the tag and the sequence number,
\* carries the next at most 246 bytes of the message, is followed by fewer
\* than four bytes, all zero, has a length that is a multiple of 4 and at
\* most 248; a call that succeeds writes the whole message.
C12_FrameFormat ==
    SenderCalled =>
        /\ \A i \in 1..Len(wire) :
              LET f == wire[i]
                  n == FrameLength(i)
              IN  /\ n \in 1..246
                  /\ Len(f) >= 2 + n
                  /\ f[1] = FrameTag(i)
                  /\ f[2] = Advanced(called_with.sequence_number, i - 1)
                  /\ SubSeq(f, 3, 2 + n) = Slice(called_with.msg, FrameOffset(i), FrameOffset(i) + n)
                  /\ Len(f) % 4 = 0
                  /\ Len(f) <= 248
                  /\ Len(f) - (2 + n) < 4
                  /\ \A j \in (2 + n + 1)..Len(f) : f[j] = 0
        /\ result = "ok" => Len(wire) = TransactionsNeeded

\* A message of 247 bytes went out as a full frame and a frame of one byte
\* of payload and one byte of padding.
C12_Witness ==
    /\ called_with.op = "send_message"
    /\ Len(called_with.msg) = 247
    /\ result = "ok"
    /\ Len(wire) = 2
    /\ Len(wire[1]) = 248
    /\ Len(wire[2]) = 4
    /\ wire[2][3] # 0
    /\ wire[2][4] = 0

\* C13: for every starting value of the counter, the first frame of a call
\* carries the counter, each further frame the number after its predecessor
\* modulo 255, also across the calls of a session; the counter is left at the
\* number after the last written frame modulo 255, within 0..254.
C13_SequenceNumbers ==
    /\ panicked = ""
    /\ (SenderCalled /\ wire # <<>>) =>
          /\ wire[1][2] = called_with.sequence_number
          /\ \A i \in 1..(Len(wire) - 1) : wire[i + 1][2] = (wire[i][2] + 1) % 255
          /\ sequence_number = (wire[Len(wire)][2] + 1) % 255
          /\ sequence_number \in 0..254
          /\ called_with.last # -1 => wire[1][2] = (called_with.last + 1) % 255
    /\ (SenderCalled /\ wire = <<>>) => sequence_number = called_with.sequence_number

---------------------------------------------------------------------------
(* The decoder on slices of a buffer: properties.                          *)

IsMultiple(raw) == raw[1] \in {CMD_BYTE_MULTIPLE, CMD_QUADLET_MULTIPLE}
WidthOf(raw) == IF raw[1] = CMD_BYTE_MULTIPLE THEN 1 ELSE 4
CountOf(raw) == raw[2]

\* The i-th value of a multiple record (i from 1).
NthValue(raw, i) == Slice(raw, 6 + (i - 1) * WidthOf(raw), 6 + i * WidthOf(raw))

\* The single-value record with the identifier of the multiple record, the
\* channel byte i - 1 and the i-th value.
NthSingle(raw, i) ==
    IF raw[1] = CMD_BYTE_MULTIPLE
    THEN ByteSingle(NthValue(raw, i)[1], <<i - 1>> \o Slice(raw, 3, 6))
    ELSE QuadletSingle(NthValue(raw, i), <<i - 1>> \o Slice(raw, 3, 6))

\* The command carries the channel index: as its channel argument in the
\* domains whose commands have one, in the identifier of a Reserved variant.
CarriesChannel(cmd, ch) ==
    IF cmd.name = "Reserved" THEN cmd.id[1] = ch
    ELSE cmd.dom \in {"Input", "Mixer", "Output"} => cmd.ch = ch

\* The command decoded from the i-th value is the one the single-value record
\* of the same identifier, channel i - 1 and value decodes to.
FansOutTo(raw, cmds, i, one) ==
    /\ ~one.panic
    /\ one.cmds = <<cmds[i]>>
    /\ CarriesChannel(cmds[i], i - 1)

\* C14: a multiple record with count N whose identifier names a domain
\* 0x00..0x04 decodes, without a panic, to N commands in the order of the
\* values, the i-th being the command of the record's identifier with the
\* channel byte i and the i-th value, and consumes 6 + N or 6 + 4N bytes.
C14_FanOut ==
    (pc = "consumed" /\ IsMultiple(in_raw) /\ in_raw[6] <= 4) =>
        /\ panicked = ""
        /\ out_len = 6 + CountOf(in_raw) * WidthOf(in_raw)
        /\ Len(out_cmds) = CountOf(in_raw)
        /\ \A i \in 1..CountOf(in_raw) :
              FansOutTo(in_raw, out_cmds, i, DspCmd_parse(NthSingle(in_raw, i)))

\* The record begins 46 02 00 05 00 01 and holds its two values.
IsPairRecord(raw) == Len(raw) >= 14 /\ Slice(raw, 0, 6) = <<70, 2, 0, 5, 0, 1>>

\* C15 as stated: the quadlet-multiple record beginning 46 02 00 05 00 01
\* decodes to two MasterListenback commands, for the channels 0 and 1.
C15_AsStated ==
    (pc = "consumed" /\ IsPairRecord(in_raw)) =>
        /\ panicked = ""
        /\ Len(out_cmds) = 2
        /\ \A i \in 1..2 : /\ out_cmds[i].dom = "Output"
                           /\ out_cmds[i].name = "MasterListenback"
                           /\ out_cmds[i].ch = i - 1

\* C15: the quadlet-multiple record beginning 46 02 00 05 00 01 (count 2,
\* identifier 00 05 00 01: input domain, second level 0x00, third level 0x05)
\* decodes to two Input Width commands, for the channels 0 and 1, carrying the
\* first and the second value of the record, and consumes 14 bytes.
C15_PairDecodes ==
    (pc = "consumed" /\ IsPairRecord(in_raw)) =>
        /\ panicked = ""
        /\ out_len = 14
        /\ out_cmds = <<MkCmd("Input", "Width", 0, 0, f32_from_le_bytes(Slice(in_raw, 6, 10))),
                        MkCmd("Input", "Width", 1, 0, f32_from_le_bytes(Slice(in_raw, 10, 14)))>>

\* The record of the reference data was decoded.
C15_Witness ==
    /\ pc = "consumed"
    /\ in_raw = R_Pair
    /\ Len(out_cmds) = 2
    /\ out_cmds[1].name = "Width" /\ out_cmds[2].name = "Width"
    /\ out_cmds[1].ch = 0 /\ out_cmds[2].ch = 1
    /\ out_cmds[2].val = <<"f32", 0, 0, 0>>

\* The row of XCmd::build for a documented command.
BuildRow(cmd) ==
    LET t == BuildTable[cmd.dom] IN t[CHOOSE i \in DOMAIN t : t[i][1] = cmd.name]

\* The second-level byte of a documented command: the mixer source commands
\* put the source index plus 2 there.
SecondLevel(cmd) ==
    IF BuildRow(cmd)[3] = -1 THEN (cmd.src + 2) % 256 ELSE BuildRow(cmd)[3]

\* The four bytes of the value of a quadlet-valued command.
QuadletOf(cmd) ==
    CASE BuildRow(cmd)[2] = "f32" -> f32_to_le_bytes(cmd.val)
      [] BuildRow(cmd)[2] = "i32" -> f32_to_le_bytes(i32_as_f32(cmd.val[2]))
      [] BuildRow(cmd)[2] = "u32" -> f32_to_le_bytes(u32_as_f32(cmd.val[2]))
      [] BuildRow(cmd)[2] = "data" -> Vec_from_FocusTarget(cmd.val)

\* The layout of the record of a documented command.
LaidOut(cmd, raw) ==
    IF BuildRow(cmd)[2] = "u8"
    THEN raw = <<105, u8_of_value(cmd.val), cmd.ch, BuildRow(cmd)[4], SecondLevel(cmd),
                 FirstLevel[cmd.dom]>>
    ELSE raw = <<102, cmd.ch, BuildRow(cmd)[4], SecondLevel(cmd), FirstLevel[cmd.dom]>>
                  \o QuadletOf(cmd)

\* The command was read from the identifier <<channel, level3, level2,
\* domain>> and the value bytes of the record raw.
ReadFrom(cmd, raw, id, vals) ==
    IF id[4] > 4 THEN cmd = MkReserved(raw)
    ELSE /\ cmd.dom = DomainOf(id[4])
         /\ IF cmd.name = "Reserved"
            THEN cmd.id = id /\ cmd.val = <<"bytes">> \o vals
            ELSE \E i \in DOMAIN ParseTable[cmd.dom] :
                    LET row == ParseTable[cmd.dom][i] IN
                    /\ row[3] = cmd.name
                    /\ row[2] = id[2]
                    /\ row[1] \in {-1, id[3]}
                    /\ cmd.val = parse_value(row[4], vals).val
                    /\ cmd.dom \in {"Input", "Mixer", "Output"} => cmd.ch = id[1]
                    /\ row[1] = -1 => cmd.src = id[3] - 2

LengthByTag(raw) ==
    CASE raw[1] = 35 -> 6
      [] raw[1] = 73 -> 6 + raw[2]
      [] raw[1] = 70 -> 6 + 4 * raw[2]
      [] raw[1] = 98 -> 1
      [] raw[1] = 101 -> Len(raw)
      [] raw[1] = 105 -> 6
      [] raw[1] = 102 -> 9
      [] OTHER -> 0

\* Leading bytes for which no command is appended.
AppendsNothing(raw) == raw[1] \notin {35, 73, 70, 105, 102}

\* C20: DspCmd::parse returns the length its leading byte determines (6 for
\* 0x23, 6+N for 0x49, 6+4N for 0x46, 1 for 0x62, the whole slice for 0x65,
\* 6 for 0x69, 9 for 0x66, 0 for any other byte), and appends no command for
\* the drain marker, the end marker and the unknown bytes, so that nothing
\* after an end marker is decoded.
C20_ConsumedLength ==
    pc \in {"parsed", "consumed"} =>
        /\ panicked = ""
        /\ out_len = LengthByTag(in_raw)
        /\ AppendsNothing(in_raw) => out_cmds = <<>>
        /\ in_raw[1] = 101 => decode_messages(in_raw).cmds = <<>>

---------------------------------------------------------------------------
(* The reassembler: the query and the buffer.                              *)

\* C16: has_dsp_message() answers true exactly when the buffer is not empty
\* and the state is Prepared; in InTruncatedMessage and in Initialized the
\* answer is false whatever the buffer holds.
C16_HasDspMessage ==
    pc = "asked" =>
        /\ result = "true" <=> (Len(cache) > 0 /\ state = "Prepared")
        /\ state \in {"InTruncatedMessage", "Initialized"} => result = "false"
        /\ result \in {"true", "false"}

\* The query was made in the middle of a truncated message, with bytes cached.
C16_Witness ==
    /\ pc = "asked"
    /\ state = "InTruncatedMessage"
    /\ Len(cache) > 0
    /\ result = "false"

\* decode_messages takes the whole buffer apart without a panic.
TakenApart(r) == ~r.panic /\ r.cache = <<>>

\* C17: whenever the handler is Prepared, its buffer is a sequence of complete
\* records that decode_messages can parse, one after the other, to the end of
\* the buffer (no padding, no partial record, no record the decoder fails on);
\* and after decode_messages returned no parsed record is left in the buffer.
C17_BufferInvariant ==
    /\ (state = "Prepared" /\ panicked = "") => TakenApart(decode_messages(cache))
    /\ (pc = "decoded" /\ panicked = "") =>
          cache = <<>> \/ DspCmd_parse(cache).consumed = 0

---------------------------------------------------------------------------
(* The reducers: parse_X_commands fold a batch of decoded commands into    *)
(* the state block of one domain.  A result is [panic, state]; an index    *)
(* past the end of a vector or array panics.                               *)

\* state.field[i] = val, or state.field[i][j] = val
store(st, slot, val) ==
    IF slot \in DOMAIN st
    THEN [panic |-> FALSE, state |-> [st EXCEPT ![slot] = val]]
    ELSE [panic |-> TRUE, state |-> st]

\* The row <<variant, field, ..>> of a match arm, 0 for the `_ => ()` arm.
arm_of(rows, cmd) ==
    IF \E r \in DOMAIN rows : rows[r][1] = cmd.name
    THEN CHOOSE r \in DOMAIN rows : rows[r][1] = cmd.name
    ELSE 0

\* ports.iter().nth(val).map(|&p| p)
nth_port(ports, val, otherwise) ==
    IF val + 1 \in DOMAIN ports THEN ports[val + 1] ELSE otherwise

\* fn parse_reverb_command
parse_reverb_command(st, cmd) ==
    LET r == arm_of(ReverbFields, cmd) IN
    IF r = 0 THEN [panic |-> FALSE, state |-> st]
    ELSE store(st, <<ReverbFields[r][2],
                     IF ReverbFields[r][3] = -1 THEN 0 ELSE ReverbFields[r][3], 0>>, cmd.val)

\* fn parse_monitor_command
parse_monitor_command(st, cmd, target_ports) ==
    LET r == arm_of(MonitorFields, cmd) IN
    IF r = 0 THEN [panic |-> FALSE, state |-> st]
    ELSE store(st, <<MonitorFields[r][2], 0, 0>>,
               IF cmd.name = "ReturnAssign"
               THEN nth_port(target_ports, cmd.val[2], "Disabled")
               ELSE cmd.val)

\* fn parse_mixer_command
parse_mixer_command(st, cmd, output_ports) ==
    LET o == arm_of(MixerOutputFields, cmd)
        s == arm_of(MixerSourceFields, cmd)
    IN  IF o # 0
        THEN IF cmd.name = "OutputAssign"
             THEN IF cmd.ch >= MIXER_COUNT \/ output_ports = <<>>
                  THEN [panic |-> TRUE, state |-> st]
                  ELSE store(st, <<"output_assign", cmd.ch, 0>>,
                             nth_port(output_ports, cmd.val[2], output_ports[1]))
             ELSE store(st, <<MixerOutputFields[o][2], cmd.ch, 0>>, cmd.val)
        ELSE IF s # 0
        THEN store(st, <<MixerSourceFields[s][2], cmd.ch, cmd.src>>, cmd.val)
        ELSE [panic |-> FALSE, state |-> st]

\* The arms `X(ch, val) => state.field[*ch] = *val` over the rows given.
parse_channel_command(rows, st, cmd) ==
    store(st, <<rows[arm_of(rows, cmd)][2], cmd.ch, 0>>, cmd.val)

\* fn parse_equalizer_parameter on the parameter of XCmd::Equalizer(ch, param)
parse_equalizer_parameter(st, cmd) == parse_channel_command(EqualizerFields, st, cmd)

\* fn parse_dynamics_parameter on the parameter of XCmd::Dynamics(ch, param)
parse_dynamics_parameter(st, cmd) == parse_channel_command(DynamicsFields, st, cmd)

\* fn parse_input_command; the microphone arms are guarded by
\* `*ch < state.pad.len()`
parse_input_command(st, cmd) ==
    IF arm_of(InputHeadFields \o InputTailFields, cmd) # 0
    THEN parse_channel_command(InputHeadFields \o InputTailFields, st, cmd)
    ELSE IF arm_of(EqualizerFields, cmd) # 0 THEN parse_equalizer_parameter(st, cmd)
    ELSE IF arm_of(DynamicsFields, cmd) # 0 THEN parse_dynamics_parameter(st, cmd)
    ELSE IF arm_of(InputMicFields, cmd) # 0
    THEN IF <<"pad", cmd.ch, 0>> \in DOMAIN st
         THEN parse_channel_command(InputMicFields, st, cmd)
         ELSE [panic |-> FALSE, state |-> st]
    ELSE [panic |-> FALSE, state |-> st]

\* fn parse_output_command
parse_output_command(st, cmd) ==
    IF arm_of(OutputTailFields, cmd) # 0
    THEN parse_channel_command(OutputTailFields, st, cmd)
    ELSE IF arm_of(EqualizerFields, cmd) # 0 THEN parse_equalizer_parameter(st, cmd)
    ELSE IF arm_of(DynamicsFields, cmd) # 0 THEN parse_dynamics_parameter(st, cmd)
    ELSE [panic |-> FALSE, state |-> st]

\* The reducer of the writer w on one command of its domain.
parse_command(w, st, cmd) ==
    CASE w = "reverb" -> parse_reverb_command(st, cmd)
      [] w = "monitor" -> parse_monitor_command(st, cmd, RETURN_ASSIGN_TARGETS)
      [] w = "mixer" -> parse_mixer_command(st, cmd, OUTPUT_PORTS)
      [] w = "input" -> parse_input_command(st, cmd)
      [] w = "output" -> parse_output_command(st, cmd)

\* A fold that hands every command of the batch to the reducer.
RECURSIVE parse_commands_any_domain(_, _, _)
parse_commands_any_domain(w, st, cmds) ==
    IF cmds = <<>> THEN [panic |-> FALSE, state |-> st]
    ELSE LET r == parse_command(w, st, Head(cmds)) IN
         IF r.panic THEN r ELSE parse_commands_any_domain(w, r.state, Tail(cmds))

\* parse_reverb_commands, parse_monitor_commands, parse_mixer_commands,
\* parse_input_commands, parse_output_commands:
\* cmds.iter().for_each(|cmd| if let DspCmd::X(c) = cmd { parse_X_command(state, c) })
RECURSIVE parse_commands(_, _, _)
parse_commands(w, st, cmds) ==
    IF cmds = <<>> THEN [panic |-> FALSE, state |-> st]
    ELSE IF Head(cmds).dom # DomainOfWriter[w] THEN parse_commands(w, st, Tail(cmds))
    ELSE LET r == parse_command(w, st, Head(cmds)) IN
         IF r.panic THEN r ELSE parse_commands(w, r.state, Tail(cmds))

\* Commands per batch.
MaxBatch == 2

\* Commands of every domain: documented ones in and out of the range of the
\* state vectors, Reserved variants, a resource report and a top-level
\* Reserved command.
CmdLibrary ==
    { MkCmd("Monitor", "ReturnAssign", 0, 0, <<"usize", 9>>),
      MkDomainReserved("Monitor", <<0, 3, 0, 0>>, <<1>>),
      MkCmd("Reverb", "Width", 0, 0, F32_One),
      MkDomainReserved("Reverb", <<0, 200, 0, 4>>, <<1>>),
      MkCmd("Mixer", "OutputAssign", MIXER_COUNT - 1, 0, <<"usize", 0>>),
      MkCmd("Mixer", "ReverbSend", 0, 0, F32_One),
      MkCmd("Mixer", "SourceMute", 0, SourceCount, <<"bool", 1>>),
      MkDomainReserved("Mixer", <<0, 200, 0, 2>>, <<1>>),
      MkCmd("Input", "Width", 0, 0, F32_One),
      MkCmd("Input", "ReverbSend", 0, 0, F32_One),
      MkCmd("Input", "Dynamics_Enable", 0, 0, <<"bool", 1>>),
      MkCmd("Input", "Pad", MicCount, 0, <<"bool", 1>>),
      MkCmd("Input", "Gain", InputCount, 0, <<"i32", 6>>),
      MkDomainReserved("Input", <<0, 200, 0, 1>>, <<1>>),
      MkCmd("Output", "ReverbSend", 0, 0, F32_One),
      MkCmd("Output", "Equalizer_Enable", 0, 0, <<"bool", 1>>),
      MkDomainReserved("Output", <<0, 200, 0, 3>>, <<1>>),
      ResourceCmd_parse(R_Usage),
      MkReserved(<<105, 0, 0, 0, 0, 5>>) }

RECURSIVE Batches(_)
Batches(n) ==
    IF n = 0 THEN {<<>>}
    ELSE Batches(n - 1)
            \cup {Append(b, c) : b \in {x \in Batches(n - 1) : Len(x) = n - 1},
                                 c \in CmdLibrary}

\* A state block (`old`) and a batch as decode_messages returns it (`decoded`).
InitReducer ==
    /\ overflow_checks = TRUE
    /\ pc = "reduce"
    /\ state = "Prepared" /\ cache = <<>> /\ seq_num = 0 /\ panicked = ""
    /\ sender_seq = 0 /\ nframes = 0 /\ nlost = 0 /\ renumbered = FALSE /\ log = <<>>
    /\ decoded \in Batches(MaxBatch)
    /\ idleCodec
    /\ writer \in Writers
    /\ old \in {BaseState(writer), AllChanged(writer, BaseState(writer))}
    /\ new = old
    /\ called_with = <<>> /\ sequence_number = 0 /\ wire = <<>>
    /\ fail_at = 0 /\ result = "none"

\* The reducer of the writer w returned r or panicked.
Reduced(r) ==
    /\ new' = r.state
    /\ panicked' = IF r.panic THEN "parse_commands" ELSE panicked

\* parse_X_commands(&mut state, &cmds) for the domain of the writer w
ParseCommands(w) ==
    /\ pc = "reduce"
    /\ writer = w
    /\ Reduced(parse_commands(w, old, decoded))
    /\ pc' = "reduced"
    /\ UNCHANGED <<overflow_checks, state, cache, seq_num, decoded, sender_seq,
                   nframes, nlost, renumbered, log>>
    /\ UNCHANGED codecVars
    /\ UNCHANGED <<writer, called_with, sequence_number, old, wire, fail_at, result>>

ParseReverbCommands == ParseCommands("reverb")
ParseMonitorCommands == ParseCommands("monitor")
ParseMixerCommands == ParseCommands("mixer")
ParseInputCommands == ParseCommands("input")
ParseOutputCommands == ParseCommands("output")

NextReducer ==
    \/ ParseReverbCommands
    \/ ParseMonitorCommands
    \/ ParseMixerCommands
    \/ ParseInputCommands
    \/ ParseOutputCommands

SpecReducer == InitReducer /\ [][NextReducer]_vars

\* The commands of the batch that are documented commands of the domain.
OwnCommands(w, cmds) ==
    SelectSeq(cmds, LAMBDA c : c.dom = DomainOfWriter[w] /\ c.name # "Reserved")

\* The field a documented command of the domain of w is stored in.
FieldOf(w, cmd) ==
    LET rows == FieldRows(w) IN rows[CHOOSE r \in DOMAIN rows : rows[r][1] = cmd.name][2]

\* The reducer gave the result r on the commands of its own domain alone.
SameAs(r) == (panicked # "") = r.panic /\ new = r.state

\* C18: a reducer applied to a heterogeneous batch gives the result of folding
\* the documented commands of its own domain alone, in their order; a batch
\* without any leaves the state block as it was, and a field changes only
\* when a command of the own domain names it.
C18_ReducerFrame ==
    pc = "reduced" =>
        /\ SameAs(parse_commands(writer, old, OwnCommands(writer, decoded)))
        /\ OwnCommands(writer, decoded) = <<>> => new = old /\ panicked = ""
        /\ \A s \in DOMAIN old :
              new[s] # old[s] =>
                 \E i \in DOMAIN decoded :
                    /\ decoded[i].dom = DomainOfWriter[writer]
                    /\ decoded[i].name # "Reserved"
                    /\ FieldOf(writer, decoded[i]) = s[1]

\* The input reducer took its command out of a batch that began with a
\* command of the reverb domain of the same variant name.
C18_Witness ==
    /\ pc = "reduced"
    /\ writer = "input"
    /\ Len(decoded) = 2
    /\ decoded[1].dom = "Reverb" /\ decoded[1].name = "Width"
    /\ decoded[2].dom = "Input" /\ decoded[2].name = "ReverbSend"
    /\ old = BaseState("input")
    /\ new # old
    /\ new[<<"width", 0, 0>>] = old[<<"width", 0, 0>>]
---------------------------------------------------------------------------
(* The record-length table of remove_padding against DspCmd::parse.        *)

\* A slice was handed to DspCmd::parse and the call returned.
ParseReturned == pc \in {"parsed", "consumed"} /\ panicked = ""

---------------------------------------------------------------------------
(* parse_input_commands and the channel index of a command.                *)

MicArms == {"Pad", "Phantom", "Limitter", "Lookahead", "Softclip"}

\* A documented input command that addresses a channel the state block does
\* not have.
PastTheInputs(cmd) ==
    /\ cmd.dom = "Input"
    /\ cmd.name # "Reserved"
    /\ IF cmd.name \in MicArms THEN cmd.ch >= MicCount ELSE cmd.ch >= InputCount

\* C30: parse_input_commands completes on every decoded batch, and a batch
\* whose input commands all address a channel the state block does not have
\* leaves the state block as it was.
C30_InputChannelRange ==
    (pc = "reduced" /\ writer = "input") =>
        /\ panicked = ""
        /\ (\A i \in 1..Len(decoded) :
                decoded[i].dom = "Input" /\ decoded[i].name # "Reserved"
                    => PastTheInputs(decoded[i]))
            => new = old
---------------------------------------------------------------------------
(* A message that takes more than one frame.                               *)

\* The last call sent a message of at least one byte and returned Ok.
MessageSent ==
    /\ called_with.op \in {"send_message", "send_commands"}
    /\ Len(called_with.msg) > 0
    /\ panicked = ""
    /\ result = "ok"

\* The payloads of the frames written, in order.
PayloadsOf(frames) == Flatten([i \in 1..Len(frames) |-> Drop(frames[i], 2)])

\* C28: a message of L > 0 bytes that is sent goes out in exactly
\* ceil(L / 246) frames in order, the frame i (from 0) carrying the bytes
\* 246*i up to min(L, 246*(i+1)); the payloads concatenated are the message
\* followed by at most 3 zero bytes, and every frame but the last is full
\* and unpadded.
C28_MultiFrame ==
    MessageSent =>
        LET L == Len(called_with.msg)
            all == PayloadsOf(wire)
        IN  /\ Len(wire) = (L + 245) \div 246
            /\ \A i \in 0..(Len(wire) - 1) :
                  LET to == IF L < 246 * (i + 1) THEN L ELSE 246 * (i + 1) IN
                  Slice(wire[i + 1], 2, 2 + to - 246 * i) = Slice(called_with.msg, 246 * i, to)
            /\ \A i \in 1..(Len(wire) - 1) : Len(wire[i]) = 2 + 246
            /\ Len(all) - L \in 0..3
            /\ Slice(all, 0, L) = called_with.msg
            /\ \A j \in (L + 1)..Len(all) : all[j] = 0

\* The commands of a long stream went out in two frames; the record of
\* Input.Gain starts in the last three payload bytes of the first frame and
\* ends in the second.
C28_Witness ==
    /\ MessageSent
    /\ called_with.op = "send_commands"
    /\ Len(wire) = 2
    /\ Slice(called_with.msg, 243, 252) = R_Gain
    /\ Slice(wire[1], 245, 248) = Slice(R_Gain, 0, 3)
    /\ Slice(wire[2], 2, 8) = Slice(R_Gain, 3, 9)
---------------------------------------------------------------------------
(* The reassembler: acceptance of frames.                                  *)

\* cache_dsp_messages returned from the latest frame.
Cached == pc = "cached" /\ panicked = ""

\* The latest frame fed to the handler.
LatestFrame == log[Len(log)]

\* The latest frame is full-sized and its payload does not begin with 0x00.
StartsTruncated(e) ==
    Len(Payload[e.kind]) + 2 = MAXIMUM_DSP_FRAME_SIZE /\ Payload[e.kind][1] # 0

\* The first frame leaves a fresh handler in Prepared.
C23_AsStated ==
    (Cached /\ LatestFrame.pre = "Initialized") => state = "Prepared"

\* C23: the first frame delivered to a fresh handler is accepted whatever
\* its number and sets the baseline; it leaves the handler in
\* InTruncatedMessage when it is 248 bytes long with a payload that does not
\* begin with 0x00, and in Prepared otherwise; the state is never Initialized
\* after a frame; after every accepted frame numbered s the handler expects
\* s+1, 0 after 255.
C23_SequenceAcceptance ==
    /\ nframes > 0 => state # "Initialized"
    /\ Cached =>
          /\ LatestFrame.pre = "Initialized" =>
                /\ seq_num = (LatestFrame.n + 1) % 256
                /\ state = IF StartsTruncated(LatestFrame)
                           THEN "InTruncatedMessage" ELSE "Prepared"
          /\ LatestFrame.ok => seq_num = (LatestFrame.n + 1) % 256
          /\ seq_num \in 0..255

\* The first frame was numbered 255 and the handler expects 0; the next was
\* numbered 0.
C23_Witness ==
    /\ Cached
    /\ Len(log) = 2
    /\ log[1].pre = "Initialized"
    /\ log[1].n = 255
    /\ log[2].n = 0
    /\ log[2].ok
    /\ seq_num = 1

\* A step in which a frame was handed to cache_dsp_messages, and the frame.
FrameDelivered == nframes' = nframes + 1
DeliveredFrame == log'[Len(log')]

\* The frame is at most 4 bytes long or its payload begins with 0x00.
Ignorable(e) == Len(Payload[e.kind]) + 2 <= 4 \/ Payload[e.kind][1] = 0

\* C24: a frame with the expected number that reaches a Prepared handler and
\* is at most 4 bytes long or has 0x00 as first payload byte leaves the buffer
\* and the state as they were and advances the expected number, also when
\* the frame is 248 bytes long.
C24_IgnoredFrames ==
    [][ ( /\ FrameDelivered
          /\ state = "Prepared"
          /\ DeliveredFrame.n = seq_num
          /\ Ignorable(DeliveredFrame) )
        => /\ panicked' = ""
           /\ cache' = cache
           /\ state' = "Prepared"
           /\ seq_num' = (DeliveredFrame.n + 1) % 256 ]_vars

\* A full-sized frame of zero bytes reached a Prepared handler that holds a
\* stream: the stream is still there and the handler is still Prepared.
C24_Witness ==
    /\ Cached
    /\ LatestFrame.kind = "blank"
    /\ LatestFrame.ok
    /\ LatestFrame.pre = "Prepared"
    /\ LatestFrame.pre_len > 0
    /\ cache = ShortStream
    /\ state = "Prepared"

\* C25: a frame with the expected number that reaches a handler in
\* InTruncatedMessage is appended to the buffer whatever it holds; a frame of
\* 248 bytes leaves the handler in InTruncatedMessage, a shorter one has the
\* padding removed from the buffer and returns the handler to Prepared.
C25_Continuation ==
    [][ ( /\ FrameDelivered
          /\ state = "InTruncatedMessage"
          /\ DeliveredFrame.n = seq_num )
        => /\ panicked' = ""
           /\ seq_num' = (DeliveredFrame.n + 1) % 256
           /\ IF Len(Payload[DeliveredFrame.kind]) + 2 = MAXIMUM_DSP_FRAME_SIZE
              THEN /\ state' = "InTruncatedMessage"
                   /\ cache' = cache \o Payload[DeliveredFrame.kind]
              ELSE /\ state' = "Prepared"
                   /\ cache' = remove_padding(cache \o Payload[DeliveredFrame.kind]).cache
      ]_vars

\* C26: a frame whose number is not the expected one, a repetition of the
\* frame before included, is not appended to the buffer of a handler in
\* Prepared or InTruncatedMessage: the buffer is emptied, streams not yet
\* decoded included, the state becomes Prepared, the expected number stays,
\* and the call returns nothing.
C26_Mismatch ==
    [][ ( /\ FrameDelivered
          /\ state \in {"Prepared", "InTruncatedMessage"}
          /\ DeliveredFrame.n # seq_num )
        => /\ panicked' = ""
           /\ cache' = <<>>
           /\ state' = "Prepared"
           /\ seq_num' = seq_num
           /\ result' = result ]_vars

\* A complete stream was buffered and not decoded when its frame came a
\* second time: the buffer is empty.
C26_Witness ==
    /\ Cached
    /\ Len(log) = 2
    /\ log[1].kind = "short" /\ log[1].ok
    /\ log[2].kind = "short" /\ log[2].n = log[1].n /\ ~log[2].ok
    /\ log[2].pre = "Prepared"
    /\ log[2].pre_len = Len(ShortStream)
    /\ cache = <<>>
    /\ state = "Prepared"
---------------------------------------------------------------------------
(* The reassembler: decode_messages.                                       *)

\* The commands of a run of complete records, each record parsed on its own.
RECURSIVE CommandsOfRecords(_)
CommandsOfRecords(buf) ==
    IF buf = <<>> THEN <<>>
    ELSE IF LengthByTag(buf) \notin 1..Len(buf) THEN <<"no record">>
    ELSE DspCmd_parse(Slice(buf, 0, LengthByTag(buf))).cmds
            \o CommandsOfRecords(Drop(buf, LengthByTag(buf)))

\* The decoder refuses the head of the buffer.
Refused(buf) == ~DspCmd_parse(buf).panic /\ DspCmd_parse(buf).consumed = 0

\* The loop of decode_messages on the buffer c has left within Len(c) + 1
\* rounds.
LoopLeft(c) ==
    decode_loop([panic |-> FALSE, cache |-> c, cmds |-> <<>>, done |-> FALSE],
                Len(c) + 1).done

\* A round on the buffer c takes at least one byte from its head, or is the
\* last.
RoundAdvances(c, r) == r.panic \/ r.consumed = 0 \/ r.consumed \in 1..Len(c)

\* A step in which decode_messages was called.
DecodeCalled == pc' = "decoded" /\ nlost' = nlost

\* C22: decode_messages leaves its loop after at most one round per byte of
\* the buffer and one more, each round taking at least one byte or ending the
\* loop; when it returns, the buffer is the rest of the former buffer from
\* the first record the decoder refused, or empty, and the commands returned
\* are those of the records taken, in their order.
C22_DecodeTerminates ==
    [][ DecodeCalled =>
          /\ LoopLeft(cache)
          /\ cache # <<>> => RoundAdvances(cache, DspCmd_parse(cache))
          /\ panicked' = "" =>
                /\ Len(cache') <= Len(cache)
                /\ cache' = Drop(cache, Len(cache) - Len(cache'))
                /\ cache' = <<>> \/ Refused(cache')
                /\ decoded' = CommandsOfRecords(Slice(cache, 0, Len(cache) - Len(cache')))
      ]_vars

\* A reassembled long stream was decoded to its commands and the buffer is
\* empty.
C22_Witness ==
    /\ pc = "decoded"
    /\ panicked = ""
    /\ decoded = LongStreamCmds
    /\ cache = <<>>
    /\ state = "Prepared"

\* C27: decode_messages called on a handler in InTruncatedMessage returns the
\* commands of the records that are complete in the buffer and leaves the
\* rest of the buffer, a record cut by the end of the frame included.
C27_DecodeWhileTruncated ==
    [][ (DecodeCalled /\ state = "InTruncatedMessage") =>
          /\ panicked' = ""
          /\ Len(cache') <= Len(cache)
          /\ cache' = Drop(cache, Len(cache) - Len(cache'))
          /\ decoded' = CommandsOfRecords(Slice(cache, 0, Len(cache) - Len(cache')))
      ]_vars
---------------------------------------------------------------------------
(* Two handlers fed the same frames in sequence: one is decoded after every *)
(* frame for which has_dsp_message() is true, the other once at the end.    *)
(* state, cache, seq_num and decoded belong to the handler decoded at the   *)
(* end; `new` is the handler decoded after every frame, out_cmds the        *)
(* commands its caller collected, result the call of it that panicked;      *)
(* in_recs lists the frames fed.                                            *)

FreshHandler == [state |-> "Initialized", cache |-> <<>>, seq_num |-> 0]

InitEager ==
    /\ overflow_checks = TRUE
    /\ pc = "feeding"
    /\ state = "Initialized" /\ cache = <<>> /\ seq_num = 0 /\ panicked = ""
    /\ decoded = <<>>
    /\ sender_seq \in SenderSeqInit
    /\ nframes = 0 /\ nlost = 0 /\ renumbered = FALSE /\ log = <<>>
    /\ in_cmd = <<>> /\ in_raw = <<>> /\ in_recs = <<>>
    /\ out_raw = <<>> /\ out_cmds = <<>> /\ out_len = 0
    /\ writer = "none" /\ called_with = <<>> /\ sequence_number = 0
    /\ old = <<>> /\ new = FreshHandler /\ wire = <<>> /\ fail_at = 0
    /\ result = "ok"

\* The fields of the handler in the result of cache_dsp_messages.
HandlerOf(r) == [state |-> r.state, cache |-> r.cache, seq_num |-> r.seq_num]

\* The caller of the second handler found has_dsp_message() true and
\* decode_messages() gave d.
EagerDecoded(rE, d) ==
    IF d.panic
    THEN /\ result' = "decode_messages"
         /\ new' = HandlerOf(rE)
         /\ UNCHANGED out_cmds
    ELSE /\ new' = [HandlerOf(rE) EXCEPT !.cache = d.cache]
         /\ out_cmds' = out_cmds \o d.cmds
         /\ UNCHANGED result

\* cache_dsp_messages gave rL on the first handler and rE on the second.
Fed(rL, rE) ==
    /\ IF rL.panic
       THEN /\ panicked' = "cache_dsp_messages"
            /\ UNCHANGED <<state, cache, seq_num>>
       ELSE /\ panicked' = panicked
            /\ state' = rL.state
            /\ cache' = rL.cache
            /\ seq_num' = rL.seq_num
    /\ IF result # "ok"
       THEN UNCHANGED <<new, out_cmds, result>>
       ELSE IF rE.panic
       THEN /\ result' = "cache_dsp_messages"
            /\ UNCHANGED <<new, out_cmds>>
       ELSE IF has_dsp_message(rE)
       THEN EagerDecoded(rE, decode_messages(rE.cache))
       ELSE /\ new' = HandlerOf(rE)
            /\ UNCHANGED <<out_cmds, result>>

\* The number of the next frame in sequence.
NextInSequence == IF state = "Initialized" THEN sender_seq ELSE seq_num

\* The next frame, in sequence, reaches both handlers.
FeedBoth(kind) ==
    /\ pc = "feeding"
    /\ panicked = ""
    /\ nframes < MaxFrames
    /\ Fed(cache_dsp_messages(handler, Frame(2, NextInSequence, kind)),
           cache_dsp_messages(new, Frame(2, NextInSequence, kind)))
    /\ in_recs' = Append(in_recs, kind)
    /\ nframes' = nframes + 1
    /\ UNCHANGED <<overflow_checks, pc, decoded, sender_seq, nlost, renumbered, log,
                   in_cmd, in_raw, out_raw, out_len, writer, called_with,
                   sequence_number, old, wire, fail_at>>

\* After the last frame decode_messages() is called on the first handler,
\* which is Prepared.
DecodeAtEnd ==
    /\ pc = "feeding"
    /\ panicked = ""
    /\ state = "Prepared"
    /\ Decoded(decode_messages(cache))
    /\ pc' = "compared"
    /\ UNCHANGED <<overflow_checks, state, seq_num, sender_seq, nframes, nlost,
                   renumbered, log>>
    /\ UNCHANGED codecVars
    /\ UNCHANGED writerVars

NextEager ==
    \/ \E kind \in FrameKinds : FeedBoth(kind)
    \/ DecodeAtEnd

SpecEager == InitEager /\ [][NextEager]_vars

\* C29: for frames fed in sequence, the commands collected by decoding
\* after every frame for which has_dsp_message() is true are the commands
\* one decode_messages() returns after the last frame when the handler is
\* Prepared then; and either way of decoding panics when the other does.
C29_EagerLazy ==
    /\ pc = "compared" =>
          /\ panicked = "" <=> result = "ok"
          /\ panicked = "" => decoded = out_cmds
    /\ panicked = "cache_dsp_messages" => result # "ok"
    /\ result = "cache_dsp_messages" => panicked = "cache_dsp_messages"

\* A short stream and a long one in two frames were decoded at once and
\* stream by stream.
C29_Witness ==
    /\ pc = "compared"
    /\ panicked = ""
    /\ in_recs = <<"short", "head", "tail">>
    /\ decoded = ShortStreamCmds \o LongStreamCmds
    /\ out_cmds = decoded
    /\ new.cache = <<>>
====
